----------------------------- MODULE MCFraming ------------------------------
EXTENDS Framing

Plain == [ramBytes |-> <<0, 0, 0, 4, 0, 0, 1, 0>>, threads |-> <<0, 0, 0, 8>>]
Wide == [ramBytes |-> <<1, 2, 3, 4, 5, 6, 7, 255>>, threads |-> <<0, 1, 0, 254>>]
TwoReports == {Plain, Wide}

=============================================================================
