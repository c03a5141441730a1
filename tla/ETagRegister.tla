---------------------------- MODULE ETagRegister ----------------------------
(***************************************************************************)
(* What the conditional write endpoints promise about the index of file    *)
(* versions (the rows of the files table): a register per path that only   *)
(* changes by compare-and-set.                                             *)
(*                                                                         *)
(* A request asks to replace the version Expect by the version New.  It    *)
(* takes effect at most once, in one instant, and only while its           *)
(* precondition holds.  A request answered "ok" took effect; one answered  *)
(* "conflict", "notFound" or "refused" did not; "conflict" and "notFound"  *)
(* are given only if the precondition was false at some instant of the     *)
(* request.  "unknown" (a 500 or a lost connection) promises nothing but   *)
(* "at most once".                                                         *)
(***************************************************************************)
CONSTANTS
    Reqs,       \* requests
    Paths,      \* files
    ETags,      \* versions
    IfMatch,    \* values a client may send as If-Match
    NoETag,     \* no version: the file does not exist
    AnyETag     \* the precondition of an unconditional request

VARIABLES
    reg,        \* reg[p]: the current version of p
    ask,        \* ask[q]: what request q asks for
    phase       \* phase[q]: where request q stands

regVars == <<reg, ask, phase>>

Asks == [path : Paths,
         expect : IfMatch \cup {NoETag, AnyETag},
         new : ETags \cup {NoETag}]

Phases == {"idle", "open", "missed", "applied",
           "ok", "conflict", "notFound", "refused", "unknown"}

Holds(q) == ask[q].expect \in {reg[ask[q].path], AnyETag}

Enter(q, from, to) ==
    /\ phase[q] \in from
    /\ phase' = [phase EXCEPT ![q] = to]

Keep == UNCHANGED <<reg, ask>>

Write(q) ==
    /\ Holds(q)
    /\ reg' = [reg EXCEPT ![ask[q].path] = ask[q].new]
    /\ UNCHANGED ask
-----------------------------------------------------------------------------
Init ==
    /\ reg \in [Paths -> ETags \cup {NoETag}]
    /\ ask \in [Reqs -> Asks]
    /\ phase = [q \in Reqs |-> "idle"]

\* A request arrives, or is refused on arrival.
Invoke(q, a) ==
    /\ phase[q] = "idle"
    /\ ask' = [ask EXCEPT ![q] = a]
    /\ \E to \in {"open", "refused", "unknown"} :
          phase' = [phase EXCEPT ![q] = to]
    /\ UNCHANGED reg

Apply(q)    == Enter(q, {"open"}, "applied") /\ Write(q)
Miss(q)     == Enter(q, {"open"}, "missed") /\ ~Holds(q) /\ Keep
Accept(q)   == Enter(q, {"applied"}, "ok") /\ Keep
NotFound(q) == Enter(q, {"missed"}, "notFound") /\ Keep
Conflict(q) ==
    \/ Enter(q, {"missed"}, "conflict") /\ Keep
    \/ Enter(q, {"open"}, "conflict") /\ ~Holds(q) /\ Keep

\* The answer is lost, before the write or with it.
Fail(q) ==
    \/ Enter(q, {"open"}, "unknown") /\ (Keep \/ Write(q))
    \/ Enter(q, {"missed", "applied"}, "unknown") /\ Keep

\* The server stops: every request in flight loses its answer.
Stop ==
    /\ phase' = [q \in Reqs |->
                   IF phase[q] \in {"open", "missed", "applied"}
                     THEN "unknown" ELSE phase[q]]
    /\ Keep

Next ==
    \/ Stop
    \/ \E q \in Reqs :
         \/ \E a \in Asks : Invoke(q, a)
         \/ Apply(q) \/ Miss(q) \/ Accept(q)
         \/ NotFound(q) \/ Conflict(q) \/ Fail(q)

Spec == Init /\ [][Next]_regVars
=============================================================================
