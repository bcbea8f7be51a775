------------------------------- MODULE Classify -------------------------------
(***************************************************************************)
(* Which failures are worth another try: Classify (internal/dpf/errors.go) *)
(* and statusFor (internal/webhook/errors.go).                             *)
(*                                                                         *)
(* An error is [marks, status]: what errors.Is and errors.As find in it,   *)
(* and the status code of DPF (0 if it has none that can be read).         *)
(***************************************************************************)
EXTENDS Integers

Classes == {"temporary", "permanent"}

Marks == Classes \union
    {"zoneNotFound", "unsupportedType",     \* of provider
     "token", "noSuchZone", "stillLock", "labelLimit", "notLockHolder",
     "context", "network"}

Errors == [marks : SUBSET Marks, status : 0 .. 599]

\* Mutant: a timeout of DPF is a 4xx like any other.
classifyStatusPlain(status) ==
    IF status = 429 \/ status \notin 400 .. 499 THEN "temporary"
    ELSE "permanent"

classifyStatus(status) ==
    IF status \in {408, 429} \/ status \notin 400 .. 499 THEN "temporary"
    ELSE "permanent"

\* Locks and contexts come before the status of DPF; what is not known is
\* temporary.
classOf(err) ==
    IF "stillLock" \in err.marks THEN "temporary"
    ELSE IF "labelLimit" \in err.marks THEN "permanent"
    ELSE IF err.marks \intersect {"notLockHolder", "context"} # {}
    THEN "temporary"
    ELSE classifyStatus(err.status)

\* The errors of a token and of an unknown zone are replaced, not wrapped.
Classify(err) ==
    IF err.marks \intersect Classes # {} THEN err
    ELSE IF "token" \in err.marks
    THEN [marks |-> {"permanent"}, status |-> 0]
    ELSE IF "noSuchZone" \in err.marks
    THEN [marks |-> {"permanent", "zoneNotFound"}, status |-> 0]
    ELSE [err EXCEPT !.marks = @ \union {classOf(err)}]

statusFor(err) ==
    IF "temporary" \notin err.marks
       /\ err.marks \intersect {"permanent", "unsupportedType", "zoneNotFound"}
             # {}
    THEN 400 ELSE 500

=============================================================================
