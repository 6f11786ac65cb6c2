--------------------------- MODULE MCTelemetrySync ---------------------------
EXTENDS TelemetrySync

\* Three matches of two lost and two auction artworks: 1 and 2 share the lost, 2 and 3 the
\* auction artwork.
MCLostOf    == <<1, 1, 2>>
MCAuctionOf == <<1, 2, 2>>
=============================================================================
