-------------------------- MODULE NarrativeListing --------------------------
(***************************************************************************)
(* GET /api/v1/narratives and GET /api/v1/narratives/{job_id}: users walk  *)
(* through the pages of their own list while jobs are created, stamped     *)
(* with the time as text, and reach the index the list is read from late.  *)
(***************************************************************************)
EXTENDS Integers, FiniteSets

CONSTANTS
  Users,
  Jobs,       \* job_ids: any set with an order
  Limit,      \* the page size asked for
  PerSecond,  \* moments in a second; the first has a fraction of zero
  MaxTime,    \* BOUND: the last moment of the clock
  None        \* no token, no owner

ASSUME ListingAssumption ==
  /\ Jobs \subseteq Nat
  /\ Limit \in Nat \ {0} /\ PerSecond \in Nat \ {0} /\ MaxTime \in Nat
  /\ None \notin Jobs /\ None \notin Users

VARIABLES
  now,      \* the clock, in moments
  stage,    \* [Jobs -> Stage]: how far the record of a job has come
  owner,    \* [Jobs -> Users \cup {None}]: user_id
  at,       \* [Jobs -> 0..MaxTime]: the moment created_at was taken
  walk,     \* [Users -> Walk]: where a user's way through the pages is
  answer    \* the last answer: to whom and what it shows

vars == <<now, stage, owner, at, walk, answer>>

(* 502 for a ClientError, which becomes a RepositoryError; 500 for anything *)
(* else the call raises, which nobody catches.                              *)
Failures == {500, 502}

Stage  == {"new", "stamped", "stored", "indexed"}
Walk   == [state : {"idle", "walking", "done"},
           start : SUBSET Jobs,    \* what the index had when the walk began
           earlier : SUBSET Jobs,  \* listed on the pages before the last
           page : SUBSET Jobs,     \* the last page
           token : Jobs \cup {None}]
Answer == [user : Users \cup {None}, status : {0, 200, 400, 404} \cup Failures,
           shown : SUBSET Jobs]

TypeOK ==
  /\ now \in 0..MaxTime
  /\ stage \in [Jobs -> Stage]
  /\ owner \in [Jobs -> Users \cup {None}]
  /\ at \in [Jobs -> 0..MaxTime]
  /\ walk \in [Users -> Walk]
  /\ answer \in Answer

Init ==
  /\ now = 0
  /\ stage = [j \in Jobs |-> "new"] /\ owner = [j \in Jobs |-> None]
  /\ at = [j \in Jobs |-> 0]
  /\ walk = [u \in Users |-> [state |-> "idle", start |-> {}, earlier |-> {},
                              page |-> {}, token |-> None]]
  /\ answer = [user |-> None, status |-> 0, shown |-> {}]

-----------------------------------------------------------------------------
(* Creation. *)

(* BOUND: time passes while a job is still to be stamped with it. *)
Tick ==
  /\ now < MaxTime /\ \E j \in Jobs : stage[j] = "new"
  /\ now' = now + 1
  /\ UNCHANGED <<stage, owner, at, walk, answer>>

(* create_narrative takes the time, and then writes the record. *)
Stamp(u, j) ==
  /\ stage[j] = "new"
  /\ stage' = [stage EXCEPT ![j] = "stamped"]
  /\ owner' = [owner EXCEPT ![j] = u]
  /\ at' = [at EXCEPT ![j] = now]
  /\ UNCHANGED <<now, walk, answer>>

Store(j) ==
  /\ stage[j] = "stamped"
  /\ stage' = [stage EXCEPT ![j] = "stored"]
  /\ UNCHANGED <<now, owner, at, walk, answer>>

(* DynamoDB brings the record to the index some time later. *)
Propagate(j) ==
  /\ stage[j] = "stored"
  /\ stage' = [stage EXCEPT ![j] = "indexed"]
  /\ UNCHANGED <<now, owner, at, walk, answer>>

(* The rank of utcnow_iso's text among the texts of all moments: isoformat *)
(* leaves out a fraction of zero, and "Z" sorts after ".".                 *)
utcnow_iso(m) ==
  LET fraction == m % PerSecond
  IN  (m - fraction) + (IF fraction = 0 THEN PerSecond - 1 ELSE fraction - 1)

(* Defect: the index is read forwards. *)
ReadForwards(i, j) ==
  \/ utcnow_iso(at[i]) < utcnow_iso(at[j])
  \/ utcnow_iso(at[i]) = utcnow_iso(at[j]) /\ i < j

(* i comes before j in the index read backwards; job_id tells ties apart. *)
Precedes(i, j) ==
  \/ utcnow_iso(at[i]) > utcnow_iso(at[j])
  \/ utcnow_iso(at[i]) = utcnow_iso(at[j]) /\ i > j

-----------------------------------------------------------------------------
(* The list. *)

(* Defect: a token with created_at alone. *)
BeyondTime(token, j) == token = None \/ utcnow_iso(at[token]) > utcnow_iso(at[j])

(* The token is the whole LastEvaluatedKey, so ties are resumed too. *)
Beyond(token, j) == token = None \/ Precedes(token, j)

(* LastEvaluatedKey is the last item of the page while something is left,  *)
(* and may be when nothing is left but the page is full.                   *)
LastKeys(page, rest) ==
  LET last == {j \in page : \A i \in page \ {j} : Precedes(i, j)}
  IN  IF rest # {} THEN last
      ELSE {None} \cup (IF Cardinality(page) = Limit THEN last ELSE {})

(* query_by_user: the first Limit items beyond the key, or fewer of them   *)
(* when the size of the page is reached first.                             *)
Pages(u, token) ==
  LET found == {j \in Jobs : stage[j] = "indexed" /\ owner[j] = u /\ Beyond(token, j)}
  IN  {<<page, found \ page>> : page \in
        {p \in SUBSET found :
           /\ Cardinality(p) <= Limit /\ (p = {} => found = {})
           /\ \A i \in p, j \in found \ p : Precedes(i, j)}}

(* 200 with a page and perhaps a token: the walk goes on while there is one. *)
ListPage(u, w, token) ==
  \E p \in Pages(u, token) : \E key \in LastKeys(p[1], p[2]) :
    /\ walk' = [walk EXCEPT ![u] =
         [state |-> IF key = None THEN "done" ELSE "walking", start |-> w.start,
          earlier |-> w.earlier \cup w.page, page |-> p[1], token |-> key]]
    /\ answer' = [user |-> u, status |-> 200, shown |-> p[1]]

(* DynamoDB refuses or cannot be reached, or the key holds a value that     *)
(* cannot be sent to it; the walk is where it was.                         *)
QueryFails(u) ==
  /\ \E status \in Failures :
       answer' = [user |-> u, status |-> status, shown |-> {}]
  /\ UNCHANGED walk

ListNarratives(u) ==
  /\ \/ LET begin == [start |-> {j \in Jobs : stage[j] = "indexed" /\ owner[j] = u},
                      earlier |-> {}, page |-> {}]
        IN  ListPage(u, begin, None)
     \/ walk[u].state = "walking" /\ ListPage(u, walk[u], walk[u].token)
     \/ QueryFails(u)
  /\ UNCHANGED <<now, stage, owner, at>>

(* A forged token, or one of somebody else's list.  decode_next_token      *)
(* raises for what is not a dict; any other dict is handed to the query,   *)
(* which fails on a value that is none of DynamoDB's and is refused for a  *)
(* key outside the user's partition.                                       *)
ListWithInvalidToken(u) ==
  /\ \/ answer' = [user |-> u, status |-> 400, shown |-> {}] /\ UNCHANGED walk
     \/ QueryFails(u)
  /\ UNCHANGED <<now, stage, owner, at>>

-----------------------------------------------------------------------------
(* One job. *)

(* Defect: the owner is not compared. *)
VisibleToAll(u, j) == stage[j] \in {"stored", "indexed"}

Visible(u, j) == stage[j] \in {"stored", "indexed"} /\ owner[j] = u

(* 404 for a job of somebody else as for none; the read may be stale and   *)
(* miss a job just stored.                                                 *)
GetNarrative(u, j) ==
  /\ \E status \in {404} \cup Failures \cup (IF Visible(u, j) THEN {200} ELSE {}) :
       /\ status = 404 => ~Visible(u, j) \/ stage[j] = "stored"
       /\ answer' = [user |-> u, status |-> status,
                     shown |-> IF status = 200 THEN {j} ELSE {}]
  /\ UNCHANGED <<now, stage, owner, at, walk>>

Next ==
  \/ Tick
  \/ \E j \in Jobs : Store(j) \/ Propagate(j)
  \/ \E u \in Users, j \in Jobs : Stamp(u, j) \/ GetNarrative(u, j)
  \/ \E u \in Users : ListNarratives(u) \/ ListWithInvalidToken(u)

Spec == Init /\ [][Next]_vars

-----------------------------------------------------------------------------
(* Properties. *)

(* A walk that has come to the page without next_token has listed every    *)
(* job the index had when it began, whatever was created, stamped late or  *)
(* indexed on the way, and however short the pages were.                   *)
WalkIsComplete ==
  \A u \in Users : walk[u].state = "done" => walk[u].start \subseteq walk[u].earlier \cup walk[u].page

(* Each page goes on below all the pages before it: nothing is listed      *)
(* twice and the order of created_at, as text, holds from page to page.    *)
PagesDescend ==
  \A u \in Users : \A i \in walk[u].earlier, j \in walk[u].page :
    \/ utcnow_iso(at[i]) > utcnow_iso(at[j])
    \/ utcnow_iso(at[i]) = utcnow_iso(at[j]) /\ i > j

(* Neither the list nor the single read shows a job of another user.       *)
OnlyOwnJobsShown == \A j \in answer.shown : owner[j] = answer.user

(* The list repeats nothing and is newest first, as far as the order as    *)
(* text goes with the order in time (utils/time.py, utcnow_iso): a job     *)
(* stands on a page before a newer one's only within one second, and only  *)
(* if it was stamped at its beginning.                                     *)
NewestFirst ==
  \A u \in Users : \A i \in walk[u].earlier, j \in walk[u].page :
    /\ i # j
    /\ at[i] < at[j] => /\ at[i] \div PerSecond = at[j] \div PerSecond
                        /\ at[i] % PerSecond = 0
=============================================================================
