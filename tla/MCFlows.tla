------------------------------- MODULE MCFlows -------------------------------
EXTENDS Flows

CONSTANTS u1, u2, u3

\* Ask "size", and "apologise" when none comes; "order" once; ask "address", or whom
\* to "contact" when the order failed.
Short == UNION {[1 .. n -> {"ok", "thrown"}] : n \in 0 .. 3}

Code ==
    [h \in Short |->
        CASE h = <<>> -> "size"
          [] h = <<"ok">> -> "order"
          [] h = <<"ok", "ok">> -> "address"
          [] h = <<"ok", "thrown">> -> "contact"
          [] h = <<"thrown">> -> "apologise"
          [] OTHER -> "return"]
=============================================================================
