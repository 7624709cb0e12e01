----------------------------- MODULE MCAdapters -----------------------------
(* A small instance of Adapters: one flag, asked for two entities.          *)
EXTENDS Adapters, TLC

\* Every answer for all entities alike (a flag the backend does not serve is
\* unknown for all), splits between the two values, and of a toggle or a text
\* from Off.
MCViews ==
    {[e \in Entity |-> r] : r \in {Unknown, Off, On} \cup Value}
    \cup {v \in [Entity -> {Off, On} \cup Value] :
            {v[e] : e \in Entity} \in {Value} \cup {{x, Off} : x \in {On} \cup (Value \ Numeric)}}

Symmetry == Permutations(Thread) \cup Permutations(Entity)
=============================================================================
