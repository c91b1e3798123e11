------------------------------ MODULE MCOutput -------------------------------
(* The instance of Output that TLC checks. *)
EXTENDS Output

MCCharacters == Written \cup {"x"}
Looked == {"x", " ", "|", "\r", "\n", "\t"}

MCTexts == BoundedSeq(Looked, 5)
MCShortTexts == BoundedSeq(Looked \cup {","}, 2)

\* On both sides of a minute, an hour and ten hours
MCSeconds == {-1, 0, 1, 59, 60, 61, 3599, 3600, 3660, 3661, 35999, 36000}

\* Three columns at the ends of what a family has, nothing, and a name nobody knows
MCPieces(family) ==
    {Head(family.defaults), Last(family.defaults), Last(family.all), "", "BOGUS"}
=============================================================================
