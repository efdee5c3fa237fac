--------------------------- MODULE ReindexService ---------------------------
(***************************************************************************)
(* What the in-process refresh promises its callers, with no queue, worker *)
(* or lock in sight.  The corpus on disk moves on; now and then the served *)
(* index catches up with some state the corpus has been in; a caller that  *)
(* asks for a refresh is told "refreshed" only by an index at least as     *)
(* recent as the corpus was when the caller asked.                         *)
(***************************************************************************)
EXTENDS Naturals

CONSTANTS
  Calls,      \* every request for a refresh made while the server lives
  MaxEdits    \* bound on the corpus edits

VARIABLES
  corpus,     \* version of the files on disk
  served,     \* version of the files the search results come from
  asked,      \* the corpus version when a call was made
  status,     \* where each call stands
  broken      \* whether a refresh has panicked

vars == <<corpus, served, asked, status, broken>>

Answers == {"ok", "scope", "busy", "internal"}

TypeOK ==
  /\ corpus \in 0..MaxEdits
  /\ served \in 0..corpus
  /\ asked \in [Calls -> 0..corpus]
  /\ status \in [Calls -> {"idle", "waiting", "gone"} \cup Answers]
  /\ broken \in BOOLEAN

Init ==
  /\ corpus = 0
  /\ served = 0
  /\ asked = [c \in Calls |-> 0]
  /\ status = [c \in Calls |-> "idle"]
  /\ broken = FALSE

\* A file of the corpus is edited.
Edit ==
  /\ corpus < MaxEdits
  /\ corpus' = corpus + 1
  /\ UNCHANGED <<served, asked, status, broken>>

\* A caller asks for a refresh.
Ask(c) ==
  /\ status[c] = "idle"
  /\ status' = [status EXCEPT ![c] = "waiting"]
  /\ asked' = [asked EXCEPT ![c] = corpus]
  /\ UNCHANGED <<corpus, served, broken>>

\* The served index catches up, perhaps not all the way.
Refresh ==
  /\ served' \in served..corpus
  /\ UNCHANGED <<corpus, asked, status, broken>>

\* A refresh panics, before or after the index has caught up: there is no other.
Break ==
  /\ broken' = TRUE
  /\ served' \in served..corpus
  /\ UNCHANGED <<corpus, asked, status>>

\* A batch of waiting callers hears the same answer.  Nobody is told "busy" as long
\* as refreshes work, and nobody is told anything else about a refresh once they
\* do not.
Answer(batch, a) ==
  /\ \A c \in batch : status[c] = "waiting"
  /\ a = "ok" => \A c \in batch : asked[c] <= served
  /\ a = "busy" => broken
  /\ a \in {"ok", "scope"} => ~broken
  /\ status' = [c \in Calls |-> IF c \in batch THEN a ELSE status[c]]
  /\ UNCHANGED <<corpus, served, asked, broken>>

\* A caller goes away without its answer.
GiveUp(c) ==
  /\ status[c] = "waiting"
  /\ status' = [status EXCEPT ![c] = "gone"]
  /\ UNCHANGED <<corpus, served, asked, broken>>

Next ==
  \/ Edit
  \/ Refresh
  \/ Break
  \/ \E c \in Calls : Ask(c) \/ GiveUp(c)
  \/ \E batch \in SUBSET Calls, a \in Answers : Answer(batch, a)

Spec == Init /\ [][Next]_vars

\* Nobody waits for ever.
EveryCallSettles ==
  \A c \in Calls : status[c] = "waiting" ~> status[c] # "waiting"

=============================================================================
