-------------------------- MODULE MCOrderExecution --------------------------
\* OrderExecution on a small account, for TLC.
EXTENDS OrderExecution

Bounds(lot, makers, levels, ops, busy, entries, hits, managed, fails, lost, restarts) ==
    [lot |-> lot, makers |-> makers, levels |-> levels, ops |-> ops, busy |-> busy,
     entries |-> entries, hits |-> hits, managed |-> managed, fails |-> fails,
     lost |-> lost, restarts |-> restarts]

\* An addition, or a second entry, while the watcher and the sweep of the first
\* are at work; an entry that is managed as it fills, while a request fails, with
\* stops moved to breakeven and beyond and an event lost, and during a restart;
\* an addition whose exits are at breakeven, to a position whose stop is moved;
\* entries and additions whose staging fails and whose events are lost; a restart
\* whose sweep fails.
Days == {Bounds(1, {TRUE}, {}, {}, 2, 2, 1, 0, 0, 0, 0),
         Bounds(2, {TRUE}, {}, Ops, 2, 1, 1, 1, 0, 0, 0),
         Bounds(1, {FALSE}, {}, Ops, 2, 1, 1, 1, 1, 0, 0),
         Bounds(1, {FALSE}, {"even", "profit"}, Ops, 2, 1, 1, 1, 0, 1, 0),
         Bounds(1, {TRUE}, {}, Ops, 2, 1, 1, 1, 0, 0, 1),
         Bounds(1, {FALSE}, {"even"}, {"MOVE_STOP"}, 1, 2, 1, 1, 0, 0, 0),
         Bounds(2, {TRUE}, {}, {}, 2, 1, 2, 0, 1, 1, 0),
         Bounds(1, {TRUE}, {}, {}, 1, 2, 2, 0, 1, 1, 0),
         Bounds(1, {TRUE}, {}, {}, 2, 1, 1, 0, 1, 0, 1)}

=============================================================================
