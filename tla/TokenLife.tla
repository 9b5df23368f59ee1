------------------------------ MODULE TokenLife ------------------------------
(***************************************************************************)
(* What the two token guards share: when a token with some life left is to *)
(* be validated again (twitch_auth.py, and again in youtube_oauth.py).     *)
(***************************************************************************)
EXTENDS Integers

CONSTANTS
    Interval,       \* _interval, an hour
    MinMargin, MaxMargin, MarginDivisor,    \* the safety margin: 1 s, 60 s and a tenth
    Lives,          \* the lives a token may have
    MaxClock        \* bound of the model

ASSUME LifeAssumption ==
    /\ Interval \in Nat \ {0}
    /\ MinMargin \in Nat \ {0}
    /\ MaxMargin \in Nat
    /\ MinMargin <= MaxMargin
    /\ MarginDivisor \in Nat \ {0}
    /\ Lives \subseteq Nat
    /\ MaxClock \in Nat

Least(a, b) == IF a < b THEN a ELSE b
Greatest(a, b) == IF a < b THEN b ELSE a

(* A tenth of the life, between the two limits.                            *)
Margin(life) == Least(MaxMargin, Greatest(MinMargin, life \div MarginDivisor))

(* _ensure_outside_expiry_margin.                                          *)
OutsideMargin(life) == Margin(life) < life

Delay(life) == Least(Interval, life - Margin(life))
=============================================================================
