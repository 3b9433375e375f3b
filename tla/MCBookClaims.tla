-------------------------- MODULE MCBookClaims --------------------------
(* Three of the five books, one of each kind: unlock_short_runin saves after *)
(* every pass, xs_reversal does not ask the DSL registry, social_trending    *)
(* runs in a thread and saves only if it opened.  One of the coins is native,*)
(* the other belongs to a HIP-3 dex.                                         *)
EXTENDS BookClaims

CONSTANTS btc, mu

TwoCoins   == {btc, mu}
OneNative  == {btc}
InOrder    == <<"unlock_short_runin", "xs_reversal">>
OfLoop     == {"unlock_short_runin", "xs_reversal"}
LateBook   == "social_trending"
Momentum   == {"xs_reversal"}
SavesAlways == {"unlock_short_runin", "xs_reversal"}
=========================================================================
