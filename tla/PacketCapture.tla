--------------------------- MODULE PacketCapture ---------------------------
(***************************************************************************)
(* The context packet of examples/inspector/engine_inspector.py and the    *)
(* confidence trace lane B of the reference operation reads after it.      *)
(* Each is a sequence of separate read-only calls: nothing keeps another   *)
(* caller of the engine from changing it between two of them.              *)
(***************************************************************************)
EXTENDS Confidence

CONSTANT NoCapture

VARIABLE capture  \* NoCapture, or what the reader has read so far

captureVars == <<vars, capture>>

PacketOrder ==
  <<"claim", "effective_confidence", "supporting_evidence", "contradictions",
    "active_contradictions", "gaps", "lifecycle_history">>

TraceOrder ==
  <<"identity_before_trace", "trace", "identity_after_trace",
    "legacy_effective">>

\* Faulty: the history is read before anything else.
HistoryFirst ==
  <<"lifecycle_history", "claim", "effective_confidence",
    "supporting_evidence", "contradictions", "active_contradictions",
    "gaps">> \o TraceOrder

ReadOrder == PacketOrder \o TraceOrder

ConfidenceOf(claim) == [base |-> claims[claim].base, factors |-> Factors(claim)]

\* What one call of the engine returns.
Answer(field, claim) ==
  CASE field = "claim"                 -> claims[claim]
    [] field = "effective_confidence"  -> ConfidenceOf(claim)
    [] field = "supporting_evidence"   -> EvidencesForClaim(claim)
    [] field = "contradictions"        -> ContradictionsForClaim(claim)
    [] field = "active_contradictions" -> ActiveContradictionsForClaim(claim)
    [] field = "gaps"                  -> GapsForClaim(claim)
    [] field = "lifecycle_history"     -> ClaimLifecycleHistory(claim)
    [] field = "identity_before_trace" -> StateIdentity
    [] field = "trace"                 -> TraceOf(claim)
    [] field = "identity_after_trace"  -> StateIdentity
    [] field = "legacy_effective"      -> ConfidenceOf(claim)

\* start is the identity when the first call is made: the builder does not
\* ask for it, a caller who brackets the packet does.
BeginCapture(claim) ==
  /\ capture = NoCapture
  /\ claim \in DOMAIN claims
  /\ capture' = [claim |-> claim, start |-> StateIdentity, done |-> 0,
                 read |-> EmptyMap, unchecked |-> {}, unresolved |-> {}]
  /\ UNCHANGED vars

NextField == ReadOrder[capture.done + 1]

\* The gaps are all looked up before the next call is made.
MayRead ==
  /\ capture # NoCapture
  /\ capture.unchecked = {}
  /\ capture.done < Len(ReadOrder)

AfterReading(field) ==
  [capture EXCEPT !.done = @ + 1,
                  !.read = Put(@, field, Answer(field, capture.claim)),
                  !.unchecked = IF field = "gaps" THEN GapsForClaim(capture.claim)
                                                  ELSE {}]

\* Faulty: the identity is asked for again with every call.
ReadAndStamp ==
  /\ MayRead
  /\ capture' = [AfterReading(NextField) EXCEPT !.start = StateIdentity]
  /\ UNCHANGED vars

\* Faulty: stops reading once the engine has moved, with no way to fail.
ReadWhileUnmoved ==
  /\ MayRead
  /\ capture.start = StateIdentity
  /\ capture' = AfterReading(NextField)
  /\ UNCHANGED vars

ReadNext ==
  /\ MayRead
  /\ capture' = AfterReading(NextField)
  /\ UNCHANGED vars

\* gap_resolution, one call per gap, lowest id first.
CheckGap ==
  /\ capture # NoCapture
  /\ \E gap \in capture.unchecked :
       /\ \A other \in capture.unchecked : gap <= other
       /\ capture' = [capture EXCEPT
                        !.unchecked = @ \ {gap},
                        !.unresolved = IF gap \in DOMAIN gapResolutions
                                       THEN @ ELSE @ \cup {gap}]
  /\ UNCHANGED vars

Complete ==
  /\ capture # NoCapture
  /\ capture.unchecked = {}
  /\ capture.done = Len(ReadOrder)

\* The reader is done with a complete capture and may begin another.
Discard ==
  /\ Complete
  /\ capture' = NoCapture
  /\ UNCHANGED vars

Reading == ReadNext \/ CheckGap

OtherCaller == Next /\ UNCHANGED capture

CaptureInit == Init /\ capture = NoCapture

CaptureNext ==
  \/ \E claim \in Ids("claim") : BeginCapture(claim)
  \/ Reading
  \/ Discard
  \/ OtherCaller

CaptureSpec == CaptureInit /\ [][CaptureNext]_captureVars

\* A reader that began goes on: its thread is not stopped for ever.
FairCaptureSpec == CaptureSpec /\ WF_captureVars(Reading)
=============================================================================
