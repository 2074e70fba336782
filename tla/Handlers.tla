------------------------------ MODULE Handlers ------------------------------
(***************************************************************************)
(* What the handlers of orders, purchase orders, production and accounts   *)
(* have in common: each reads one document, checks it, and writes it by    *)
(* its id with no condition on what was read.  Between the read and the    *)
(* write any other request may write the same document.                    *)
(***************************************************************************)
EXTENDS Integers, Sequences, FiniteSets

CONSTANTS
    MaxRequests,    \* HTTP requests of a behaviour, numbered as they arrive
    None            \* the JavaScript undefined and the SQL NULL

ASSUME HandlersAssumption == MaxRequests \in Nat /\ None \notin Nat

VARIABLE request    \* what each request is doing

Requests == 1 .. MaxRequests

-----------------------------------------------------------------------------
\* doc: the document (or table, for a count) that was read; dto: what the
\* client sends; was: what was read; late (auxiliary): another request has
\* written the document since.
Idle == [pc |-> "idle", op |-> None, doc |-> None, dto |-> None, was |-> None,
         late |-> FALSE]

Served == [Idle EXCEPT !.pc = "done"]

HandlersInit == request = [r \in Requests |-> Idle]

Arrives(r) == request[r].pc = "idle" /\ \A q \in 1 .. r - 1 : request[q].pc # "idle"

\* The request arrives and its document is read.
Read(r, op, doc, dto, row) ==
    /\ Arrives(r)
    /\ request' = [request EXCEPT ![r] = [pc |-> "write", op |-> op, doc |-> doc,
                                          dto |-> dto, was |-> row, late |-> FALSE]]

AtWrite(r, op) == request[r].pc = "write" /\ request[r].op = op

\* Documents are written by r, which goes on as next; whoever read one of them
\* before holds an old copy from now on.
WrittenAll(r, docs, next) ==
    request' = [q \in Requests |->
                  CASE q = r -> next
                    [] q # r /\ request[q].pc = "write" /\ request[q].doc \in docs
                         -> [request[q] EXCEPT !.late = TRUE]
                    [] OTHER -> request[q]]

Written(r, next) == WrittenAll(r, {request[r].doc}, next)

\* The statement is refused, and with it the request.
Refuse(r) == request' = [request EXCEPT ![r] = Served]

\* In this step a request writes doc that read it before its last change.
LateWrite(doc) ==
    \E r \in Requests : /\ request[r].pc = "write" /\ request'[r].pc # "write"
                        /\ request[r].doc = doc /\ request[r].late

=============================================================================
