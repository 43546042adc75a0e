----------------------------- MODULE MCMarkers -----------------------------
EXTENDS Markers

\* One marker is the end of another, one runs across every block's end.
ThreeMarkers == 1 :> <<0, 1>> @@ 2 :> <<1>> @@ 3 :> <<0, 1, 1>>

\* All files of up to two bytes, and of four bytes when the last one can end a
\* marker: with three threads the third chunk of these starts past their end.
SmallFiles ==
  UNION {[1..n -> {0, 1}] : n \in 0..2} \cup {f \in [1..4 -> {0, 1}] : f[4] = 1}
=============================================================================
