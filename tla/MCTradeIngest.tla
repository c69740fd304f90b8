---------------------------- MODULE MCTradeIngest ----------------------------
\* TradeIngest on a few trades of the first minutes, for TLC.
EXTENDS TradeIngest

Bounds(trades, drops, rest, db, restarts, withBars, until) ==
    [trades |-> trades, drops |-> drops, rest |-> rest, db |-> db,
     restarts |-> restarts, bars |-> withBars, until |-> until]

\* Minutes of two seconds: two trades in the first minute, one in the second.
Seconds == <<0, 1, 2>>

\* A drop with a failing page, with a failing write, with a restart; one that
\* misses bars; and two drops, the second while the first is still reconciled.
Days == {Bounds(3, 1, 1, 0, 0, FALSE, 5), Bounds(3, 1, 0, 1, 0, FALSE, 5),
         Bounds(3, 1, 0, 0, 1, FALSE, 4), Bounds(2, 1, 1, 1, 0, TRUE, 6),
         Bounds(2, 2, 0, 0, 0, FALSE, 5)}

\* One drop.
Reconnect == {Bounds(3, 1, 0, 0, 0, FALSE, 5)}

=============================================================================
