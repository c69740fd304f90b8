-------------------------- MODULE MCStrategyWorkflow --------------------------
\* StrategyWorkflow over a few minutes, for TLC.
EXTENDS StrategyWorkflow

Bounds(minutes, scheduled, resting, prices, events, bundles, answers, late, entries, bad, errs,
       blinds, restarts, slow) ==
    [minutes |-> minutes, scheduled |-> scheduled, resting |-> resting,
     prices |-> prices, events |-> events,
     bundles |-> bundles, answers |-> answers, late |-> late, entries |-> entries,
     bad |-> bad, errs |-> errs, blinds |-> blinds, restarts |-> restarts, slow |-> slow]
EntryOrFail == {"entry", "fail"}

Days == {Bounds(2, {2}, FALSE, EntryOrFail, 2, 1, 2, 0, 2, 0, 0, 1, 1, 0),
         Bounds(2, {2}, FALSE, {"entry"}, 2, 2, 3, 0, 1, 0, 0, 1, 0, 0),
         Bounds(2, {2}, FALSE, {"fail"}, 1, 2, 2, 0, 0, 1, 0, 0, 0, 0),
         Bounds(2, {2}, FALSE, EntryOrFail, 3, 1, 2, 1, 1, 0, 0, 0, 0, 0),
         Bounds(2, {}, TRUE, {"entry"}, 2, 2, 1, 0, 2, 0, 0, 0, 0, 0),
         Bounds(2, {}, TRUE, {"entry"}, 2, 1, 1, 0, 2, 0, 1, 0, 0, 0),
         Bounds(2, {}, FALSE, {"target", "entry"}, 2, 2, 2, 0, 1, 0, 0, 0, 0, 0),
         Bounds(2, {}, FALSE, {"quiet"}, 3, 2, 2, 0, 0, 0, 0, 0, 0, 0),
         Bounds(2, {}, FALSE, EntryOrFail, 2, 1, 1, 0, 1, 0, 0, 0, 0, 1),
         Bounds(2, {}, FALSE, {"quiet"}, 3, 1, 2, 0, 0, 0, 0, 0, 0, 1),
         Bounds(2, {2}, FALSE, {"entry"}, 1, 2, 2, 0, 1, 0, 0, 0, 0, 1)}

=============================================================================
