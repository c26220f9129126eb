-------------------------------- MODULE MCUsb --------------------------------
EXTENDS Usb

Itf(b, n) == [dev |-> b, itf |-> n]

\* What one bridge adds to the list: its two interfaces in either order, with or
\* without an interface whose number is not known before them.
Blocks(b) ==
  {<<Itf(b, 0), Itf(b, 1)>>, <<Itf(b, 1), Itf(b, 0)>>,
   <<Itf(b, -1), Itf(b, 0), Itf(b, 1)>>}

BridgesIn(l) == {l[i].dev : i \in DOMAIN l}
More(lists) ==
  UNION {{l \o m : m \in UNION {Blocks(b) : b \in {"A", "B", "C"} \ BridgesIn(l)}} : l \in lists}
One == More({<<>>})
Two == More(One)

\* Up to three bridges, in any order, and perhaps one more unknown interface or a
\* bridge that has one interface only.
MCLists ==
  {<<>>, <<Itf("A", 0)>>} \cup One \cup Two \cup More(Two)
  \cup {l \o <<Itf("A", -1)>> : l \in One \cup Two}
  \cup {l \o <<Itf("D", n)>> : l \in One \cup Two, n \in {0, 1}}

\* C does not report its serial number.
MCSerial == [b \in {"A", "B", "C", "D"} |-> IF b = "C" THEN NoSerial ELSE b]
=============================================================================
