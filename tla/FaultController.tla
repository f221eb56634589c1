--------------------------- MODULE FaultController ---------------------------
(***************************************************************************)
(* The single-shot fault trigger of fault.py, as operators on the          *)
(* controller's three fields.  A FaultSpec is its operation and occurrence;*)
(* the kind only tells the adapter what to do with the fault.              *)
(***************************************************************************)
EXTENDS Naturals

FaultSpec(operation, occurrence) == [operation |-> operation, occurrence |-> occurrence]

NewController(spec) == [spec |-> spec, matching_occurrences |-> 0, triggered |-> FALSE]

Controllers(operations) ==
  [spec : [operation : operations, occurrence : Nat],
   matching_occurrences : Nat, triggered : BOOLEAN]

Matches(controller, operation) ==
  ~controller.triggered /\ operation = controller.spec.operation

\* checkpoint returns the fault:
Fires(controller, operation) ==
  /\ Matches(controller, operation)
  /\ controller.matching_occurrences = controller.spec.occurrence

\* the controller after that call:
checkpoint(controller, operation) ==
  IF Matches(controller, operation)
  THEN [spec |-> controller.spec,
        matching_occurrences |-> controller.matching_occurrences + 1,
        triggered |-> Fires(controller, operation)]
  ELSE controller
=============================================================================
