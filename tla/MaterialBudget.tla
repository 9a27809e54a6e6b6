--------------------------- MODULE MaterialBudget ---------------------------
(***************************************************************************)
(* What the worker keeps of a repository: an archive is unpacked under a   *)
(* cap on its total size, and a budget of bytes is then spent on the parts *)
(* of the material in order of priority, cutting texts between characters. *)
(* A text is the sequence of its bytes, of which only matters whether they *)
(* start a character: TRUE where they do (utf8.RuneStart).                 *)
(***************************************************************************)
EXTENDS Integers, Sequences, SequencesExt, FiniteSetsExt, Functions

CONSTANTS
  MaxTotalBytes,  \* in Nat, the cap of the unpacked repository
  Sizes,          \* a subset of Nat: sizes of files in archives
  MaxEntries,     \* BOUND, in Nat: regular files of an archive
  MaxBytes,       \* in Nat, the budget of the material
  Texts           \* a subset of Text

VARIABLES
  pc,         \* where Process is
  sizes,      \* the sizes of the regular files met in the archive
  files,      \* FileEntry.Size of the files unpacked
  total,      \* bytes written
  remaining,  \* what is left of the budget
  offered,    \* the texts offered for the parts so far, in bytes
  parts       \* what was taken of them

vars == <<pc, sizes, files, total, remaining, offered, parts>>

(* Whole characters, of at most four bytes. *)
Text == {s \in Seq(BOOLEAN) :
           /\ s # <<>> => s[1]
           /\ \A i \in DOMAIN s : i + 4 <= Len(s) => \E k \in 1..4 : s[i + k]}

Part == <<"tree", "readme", "commits", "files">>

TypeOK ==
  /\ pc \in {"unpack", "too large", "failed", "select", "done"}
  /\ sizes \in Seq(Sizes) /\ Len(sizes) <= MaxEntries
  /\ files \in Seq(Nat) /\ total \in 0..(MaxTotalBytes + 1)
  /\ remaining \in 0..MaxBytes
  /\ offered \in Seq(Seq(BOOLEAN)) /\ parts \in Seq(Seq(BOOLEAN))
  /\ Len(parts) = Len(offered) /\ Len(parts) <= Len(Part)
  /\ pc = "done" <=> Len(parts) = Len(Part)

Init ==
  /\ pc = "unpack" /\ sizes = <<>> /\ files = <<>> /\ total = 0
  /\ remaining = MaxBytes /\ offered = <<>> /\ parts = <<>>

material == <<remaining, offered, parts>>

-----------------------------------------------------------------------------
(* Untar. *)

(* Defect: without the byte that shows the excess. *)
CopyRemaining(size, left) == IF size < left THEN size ELSE left

(* io.Copy from a reader limited to one byte more than what is left. *)
writeFileCapped(size, left) ==
  LET limit == IF left + 1 < 1 THEN 1 ELSE left + 1
  IN  IF size < limit THEN size ELSE limit

UntarFile ==
  /\ pc = "unpack" /\ Len(sizes) < MaxEntries
  /\ \E size \in Sizes :
       LET written == writeFileCapped(size, MaxTotalBytes - total)
       IN  /\ sizes' = Append(sizes, size)
           /\ total' = total + written
           /\ IF total + written > MaxTotalBytes
                THEN pc' = "too large" /\ UNCHANGED files
                ELSE files' = Append(files, written) /\ UNCHANGED pc
  /\ UNCHANGED material

(* Directories change nothing here, and links are left out. *)
UntarEnds ==
  /\ pc = "unpack" /\ pc' = "select"
  /\ UNCHANGED <<sizes, files, total, material>>

(* A broken stream or header, a name outside the directory, the disk. *)
UntarFails ==
  /\ pc = "unpack" /\ pc' = "failed"
  /\ UNCHANGED <<sizes, files, total, material>>

-----------------------------------------------------------------------------
(* SelectMaterial. *)

(* Defect: cut anywhere. *)
CutAnywhere(s, maxBytes) == IF maxBytes <= 0 THEN <<>> ELSE SubSeq(s, 1, Min({maxBytes, Len(s)}))

(* Bytes are counted from 0 in the code: s[cut] is s[cut + 1] here. *)
truncateUTF8(s, maxBytes) ==
  IF maxBytes <= 0 THEN <<>>
  ELSE IF Len(s) <= maxBytes THEN s
  ELSE SubSeq(s, 1, Max({0} \cup {cut \in 1..maxBytes : s[cut + 1]}))

takeBudget(text) ==
  LET out == IF remaining <= 0 THEN <<>> ELSE truncateUTF8(text, remaining)
  IN  /\ offered' = Append(offered, text) /\ parts' = Append(parts, out)
      /\ remaining' = remaining - Len(out)

(* Block after block, each cut to what the ones before it have left. *)
buildSelectedFiles(blocks, budget) ==
  LET b[n \in 0..Len(blocks)] ==
        IF n = 0 THEN <<>>
        ELSE b[n - 1] \o truncateUTF8(blocks[n], budget - Len(b[n - 1]))
  IN  b[Len(blocks)]

(* Tree, README (none is the empty text) and commit log. *)
TakeText ==
  /\ pc = "select" /\ Len(parts) < 3
  /\ \E text \in Texts : takeBudget(text)
  /\ UNCHANGED <<pc, sizes, files, total>>

(* The blocks of up to so many files as were unpacked. *)
TakeFiles ==
  /\ pc = "select" /\ Len(parts) = 3
  /\ \E n \in 0..Len(files) : \E blocks \in [1..n -> Texts] :
       takeBudget(buildSelectedFiles(blocks, remaining))
  /\ pc' = "done"
  /\ UNCHANGED <<sizes, files, total>>

Next == UntarFile \/ UntarEnds \/ UntarFails \/ TakeText \/ TakeFiles

Spec == Init /\ [][Next]_vars

-----------------------------------------------------------------------------
(* Properties. *)

(* The archive is refused exactly when its files exceed the cap together,  *)
(* and then one byte beyond it at most was written; what is accepted was   *)
(* unpacked whole.                                                         *)
TooLargeExactly ==
  /\ pc = "too large" <=> SumFunction(sizes) > MaxTotalBytes
  /\ total <= MaxTotalBytes + 1
  /\ pc # "too large" => files = sizes

TakenUpTo(i) == SumFunctionOnSet([j \in DOMAIN parts |-> Len(parts[j])], 1..i)

WithinBudget == TakenUpTo(Len(parts)) + remaining = MaxBytes

WholeCharacters ==
  \A i \in DOMAIN parts :
    LET cut  == Len(parts[i])
        ends == {e \in cut + 1 .. Len(offered[i]) : e = Len(offered[i]) \/ offered[i][e + 1]}
    IN  /\ IsPrefix(parts[i], offered[i])
        /\ cut < Len(offered[i]) =>
             offered[i][cut + 1] /\ \A e \in ends : TakenUpTo(i - 1) + e > MaxBytes

ScrapsAfterCut ==
  \A i, j \in DOMAIN parts :
    i < j /\ Len(parts[i]) < Len(offered[i]) => Len(parts[j]) <= 3

(* The parts together keep the budget (takeBudget).  Each is the beginning *)
(* of its text, ends between two characters, and is cut only if its next   *)
(* character would have exceeded the budget (truncateUTF8).  In order of   *)
(* priority: once one was cut, those after it get at most the three bytes  *)
(* its next character did not fit into (SelectMaterial).                   *)
PartsKeepBudget == WithinBudget /\ WholeCharacters /\ ScrapsAfterCut
=============================================================================
