---------------------------- MODULE MCReconciler ----------------------------
(***************************************************************************)
(* Small instances of Reconciler.  The .cfg files choose among these       *)
(* values.                                                                 *)
(***************************************************************************)
EXTENDS Reconciler

\* Labels that tell all references and revisions apart.
MCLabels == AllKeys \X AnyRevision
MCLabelsOf(key, revision) == <<key, revision>>

\* A spec that works, named by the ways it differs.
GoodSpec == [check |-> "ok", pipeline |-> "p", params |-> "static", refused |-> {}]
DynamicSpec == [GoodSpec EXCEPT !.params = "dynamic"]
RejectedSpec == [GoodSpec EXCEPT !.refused = MCLabels]
BrokenSpec == [GoodSpec EXCEPT !.params = "broken"]
ArraySpec == [GoodSpec EXCEPT !.params = "array"]
RejectedDynamicSpec == [DynamicSpec EXCEPT !.refused = MCLabels]
MissingSpec == [GoodSpec EXCEPT !.check = "missing"]
UnsupportedSpec == [GoodSpec EXCEPT !.check = "unsupported"]
ResolverSpec == [GoodSpec EXCEPT !.pipeline = "resolver"]

\* The specs of the triggers, for the .cfg files.
EveryTrigger(specs) == [t \in Triggers |-> specs]

MCOneSpec == EveryTrigger({GoodSpec})
MCRejectableSpecs == EveryTrigger({GoodSpec, RejectedSpec})
MCAnySpecs == EveryTrigger({GoodSpec, DynamicSpec, BrokenSpec, ArraySpec, RejectedSpec})
MCEditedSpecs == EveryTrigger({GoodSpec, RejectedSpec, MissingSpec, UnsupportedSpec})
MCResolverSpecs == EveryTrigger({ResolverSpec})
MCResolverEdits ==
  EveryTrigger({ResolverSpec, BrokenSpec, DynamicSpec, RejectedDynamicSpec})

\* One pipeline per trigger; the specs of the first one are the more varied.
MCTwoPipelines ==
  LET first == CHOOSE t \in Triggers : TRUE
  IN  [t \in Triggers |->
         IF t = first THEN {GoodSpec, DynamicSpec, RejectedSpec}
                      ELSE {[GoodSpec EXCEPT !.pipeline = "q"]}]
=============================================================================
