------------------------------- MODULE NicToken -------------------------------
(***************************************************************************)
(* The token of EInvoiceService: generateIrn(), cancelIrn() and            *)
(* getIrnDetails() each authenticate first, which answers the token the    *)
(* service keeps while it believes it valid and asks NIC for one           *)
(* otherwise.  Calls overlap, answers take any time and come in any order; *)
(* no timeout is configured for them.                                      *)
(***************************************************************************)
EXTENDS Integers, FiniteSets

CONSTANTS
    Calls,          \* how many of the three operations may be under way at once
    Lives,          \* lifetimes NIC may give a token
    Buffer,         \* the 300 seconds the service takes off
    DefaultLife,    \* the 21600 seconds assumed when TokenExpiry cannot be read
    Horizon,        \* bound on the clock
    NoToken         \* null

\* A token is known by when NIC issued it and until when NIC takes it.  waited
\* (auxiliary): the time the answer that brought it took.
Token == [issued : 0 .. Horizon, until : Nat, waited : 0 .. Horizon]

ASSUME NicAssumption ==
    /\ Lives \subseteq Nat \ {0} /\ DefaultLife \in Nat \ {0}
    /\ Buffer \in Nat /\ Horizon \in Nat

VARIABLES
    now,            \* the clock
    kept,           \* authToken and tokenExpiresAt
    call            \* what each call is doing

nicVars == <<now, kept, call>>

NoCall == [pc |-> "idle", token |-> NoToken, since |-> 0, readable |-> TRUE]

NicInit ==
    /\ now = 0
    /\ kept = [token |-> NoToken, until |-> 0]
    /\ call = [c \in Calls |-> NoCall]

Tick ==
    /\ now < Horizon
    /\ now' = now + 1
    /\ UNCHANGED <<kept, call>>

-----------------------------------------------------------------------------
\* authenticate(): there is a token and the service takes it to be valid.
BelievedValid == kept.token # NoToken /\ now < kept.until

Send(c, token) == [call EXCEPT ![c] = [NoCall EXCEPT !.pc = "sent", !.token = token,
                                                     !.since = now]]

\* The token kept is used at once.
UseKept(c) ==
    /\ call[c].pc = "idle" /\ BelievedValid
    /\ call' = Send(c, kept.token)
    /\ UNCHANGED <<now, kept>>

AskNic(c) ==
    /\ call[c].pc = "idle" /\ ~ BelievedValid
    /\ call' = [call EXCEPT ![c].pc = "asking"]
    /\ UNCHANGED <<now, kept>>

\* NIC issues a token; TokenExpiry is readable, or the life is the default.
NicIssues(c) ==
    /\ call[c].pc = "asking"
    /\ \E life \in Lives, readable \in BOOLEAN :
         /\ ~ readable => life = DefaultLife
         /\ call' = [call EXCEPT ![c] =
              [pc |-> "answered", since |-> now, readable |-> readable,
               token |-> [issued |-> now, until |-> now + life, waited |-> 0]]]
    /\ UNCHANGED <<now, kept>>

\* NIC refuses, or does not answer: the call throws and the token kept stays.
NicRefuses(c) ==
    /\ call[c].pc \in {"asking", "answered"}
    /\ call' = [call EXCEPT ![c] = NoCall]
    /\ UNCHANGED <<now, kept>>

\* Mutant: the whole life of the token is counted from the answer.
BugBelievedUntil(life) == now + life

BelievedUntil(life) == now + life - Buffer

\* The answer arrives: token and expiry are assigned with no await between them.
KeepToken(c) ==
    /\ call[c].pc = "answered"
    /\ LET given == call[c].token
           life == IF call[c].readable THEN given.until - given.issued ELSE DefaultLife
           token == [given EXCEPT !.waited = now - given.issued]
       IN  /\ kept' = [token |-> token, until |-> BelievedUntil(life)]
           /\ call' = Send(c, token)
    /\ UNCHANGED now

\* The request, with its token, reaches NIC.
ReachNic(c) ==
    /\ call[c].pc = "sent"
    /\ call' = [call EXCEPT ![c] = NoCall]
    /\ UNCHANGED <<now, kept>>

NicNext ==
    \/ Tick
    \/ \E c \in Calls : \/ UseKept(c) \/ AskNic(c) \/ NicIssues(c) \/ NicRefuses(c)
                        \/ KeepToken(c) \/ ReachNic(c)

NicSpec == NicInit /\ [][NicNext]_nicVars

-----------------------------------------------------------------------------
\* A token reaches NIC while NIC takes it, whichever of several authentications
\* it came from, as long as its answer and the request with it together took no
\* more than the buffer and the token lives longer than that.
TokenTakenByNic ==
    [][\A c \in Calls :
         LET token == call[c].token
         IN  /\ call[c].pc = "sent" /\ call'[c].pc = "idle"
             /\ token.waited + (now - call[c].since) <= Buffer
             /\ token.until - token.issued > Buffer
             => now < token.until]_nicVars

=============================================================================
