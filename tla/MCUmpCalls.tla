----------------------------- MODULE MCUmpCalls -----------------------------
EXTENDS UmpCalls, TLC

CONSTANTS c, s, r   \* the users who control, send and receive

MCKindOf == c :> "ctrl" @@ s :> "snd" @@ r :> "rec"

=============================================================================
