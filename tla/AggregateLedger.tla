--------------------------- MODULE AggregateLedger ---------------------------
(***************************************************************************)
(* What ingestion promises to the client of POST /v1/holding-intervals and *)
(* POST /v1/transitions, with no database in sight.                        *)
(*                                                                         *)
(* A request r is to be credited once to every UTC quarter its event       *)
(* touches, first[r]..last[r].  Each quarter is credited atomically, in    *)
(* calendar order.  The verdict commits the service to what has been       *)
(* credited: "accepted" means every quarter, "rejected" means none; a      *)
(* request that failed, or whose answer was lost with the server, has been *)
(* credited for some prefix of its quarters.  Once given, a verdict is     *)
(* final and freezes the credit of its request.                            *)
(***************************************************************************)
EXTENDS Integers

CONSTANTS
  Request,      \* the requests ever received
  Quarter,      \* the quarter indices in use, a set of integers
  first,        \* first[r]: the first quarter r's event touches
  last          \* last[r]: the last one; first[r] > last[r] if r credits nothing

VARIABLES
  credit,       \* credit[r][q]: how often r has been counted in quarter q
  verdict       \* verdict[r]: what the service told the client about r

ledgerVars == <<credit, verdict>>

Verdicts == {"none", "accepted", "rejected", "failed", "lost"}

Span(r) == first[r]..last[r]

LedgerInit ==
  /\ credit = [r \in Request |-> [q \in Quarter |-> 0]]
  /\ verdict = [r \in Request |-> "none"]

\* The quarter q is credited once, after all earlier quarters of r's event.
Credit(r, q) ==
  /\ verdict[r] = "none"
  /\ q \in Span(r)
  /\ credit[r][q] = 0
  /\ \A p \in Span(r) : p < q => credit[r][p] = 1
  /\ credit' = [credit EXCEPT ![r][q] = 1]
  /\ UNCHANGED verdict

\* What may be said of r, given what it has been credited.
Permitted(r, v) ==
  /\ v \in Verdicts \ {"none"}
  /\ v = "accepted" => \A q \in Span(r) : credit[r][q] = 1
  /\ v = "rejected" => \A q \in Quarter : credit[r][q] = 0

\* Requests are answered one by one, but a crash settles several at once.
Answer ==
  /\ verdict' \in [Request -> Verdicts]
  /\ \A r \in Request :
       verdict'[r] # verdict[r] => /\ verdict[r] = "none"
                                   /\ Permitted(r, verdict'[r])
  /\ UNCHANGED credit

LedgerNext ==
  \/ \E r \in Request, q \in Quarter : Credit(r, q)
  \/ Answer

LedgerSpec == LedgerInit /\ [][LedgerNext]_ledgerVars

=============================================================================
