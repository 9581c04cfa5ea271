---------------------------- MODULE MCUmpNumbers ----------------------------
EXTENDS UmpNumbers

\* g_random_int_range(0, G_MAXUINT16) never draws the largest number.
MCIss == 0..(NumMod - 2)

=============================================================================
