------------------------------ MODULE MCAnswers ------------------------------
(* Every built-in code, one that is not, and none; the errors whose code may *)
(* be registered come with and without texts of their own; errors without a  *)
(* code and with labels on every source of three bytes.                      *)
EXTENDS Answers

MCCodes == {"NOT_FOUND", "CUSTOM"}

MCPlain ==
    {e \in [code : DOMAIN statusFor0 \cup {"CUSTOM", NoCode}, class : {"expected", "defect", "cancelled"},
            retryable : BOOLEAN, public : BOOLEAN, hint : BOOLEAN, url : BOOLEAN, domain : BOOLEAN,
            severity : {"debug", "info", "warn", "error", "fatal"}, drawing : {NoDrawing}] :
        /\ e.code \notin MCCodes => ~e.hint /\ ~e.url
        /\ e.code = "NOT_FOUND" => e.class = "expected" /\ ~e.retryable
        /\ e.public => e.code = "CUSTOM"
        /\ e.domain \/ e.severity # "error" => e.code \notin DOMAIN statusFor0 /\ ~e.hint /\ ~e.url /\ ~e.public
        /\ e.severity # "error" => e.class = "expected" /\ ~e.retryable /\ ~e.domain}

Bare == CHOOSE e \in MCPlain : e.code = NoCode /\ e.class = "expected" /\ ~e.public

Label == [start : -1 .. 4, len : {0, 2, 3}]

\* Two labels, the first of them before or after the source, or one.
MCDrawn ==
    {[Bare EXCEPT !.drawing = [src |-> src, labels |-> labels]] :
        src \in [1 .. 3 -> {"x", NL}] \cup {<<>>},
        labels \in {<<lb>> : lb \in Label} \cup {<<[start |-> out, len |-> 1], [start |-> 2, len |-> 2]>> : out \in {-1, 4}}}

MCAsked == MCPlain \cup MCDrawn

MCRequests ==
    (Adapters \X (MCPlain \cup {Foreign, NoError})) \cup ({"graphical", "narrated"} \X MCDrawn)
=============================================================================
