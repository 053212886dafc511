---------------------- MODULE PacketCaptureProperties ----------------------
(***************************************************************************)
(* What a context packet can be trusted for (section 6 of                  *)
(* docs/architecture/ENGINE_READ_CONSISTENCY_CONTRACT.md).                 *)
(***************************************************************************)
EXTENDS PacketCapture

\* What the engine would answer now to all that was read.
StillAnswers(fields) ==
  \A field \in fields : capture.read[field] = Answer(field, capture.claim)

CheckedGaps == capture.read["gaps"] \ capture.unchecked

\* The gaps left out of unresolved_gaps are the resolved ones.
GapsStillAnswer ==
  "gaps" \in DOMAIN capture.read =>
    capture.unresolved = CheckedGaps \ DOMAIN gapResolutions

\* The first of the two identities vouches for what was read after it.
AfterTraceBegan ==
  {"identity_before_trace", "trace", "identity_after_trace",
   "legacy_effective"} \cap DOMAIN capture.read

\* An identity that is still the engine's vouches for every answer given
\* after it was asked for: a bracketed packet is of one moment, whatever the
\* other callers did, and so is a bracketed trace of a packet that is torn.
IdentityVouchesForReads ==
  capture # NoCapture =>
    /\ capture.start = StateIdentity =>
         StillAnswers(DOMAIN capture.read) /\ GapsStillAnswer
    /\ "identity_before_trace" \in DOMAIN capture.read
       /\ capture.read["identity_before_trace"] = StateIdentity
         => StillAnswers(AfterTraceBegan)

StatusesIn(history) ==
  {history[i].from : i \in DOMAIN history} \cup {history[i].to : i \in DOMAIN history}

\* A packet read across changes still tells one story: the history, read last,
\* runs through the status read first, and a claim that was read as refuted,
\* which the packet validator lets a consumer restate, has confidence zero
\* in it and a history, if any, that ends refuted.
TornPacketTellsOneStory ==
  Complete =>
    LET packet == capture.read
        history == packet["lifecycle_history"]
        status == packet["claim"].status
    IN  /\ history # <<>> => status \in StatusesIn(history)
        /\ status = "refuted" =>
             /\ IsZero(packet["effective_confidence"])
             /\ history # <<>> => history[Len(history)].to = "refuted"

\* A packet that was begun is completed, however the other callers change the
\* engine meanwhile: the reader never waits for them nor starts again.
CaptureCompletes == capture # NoCapture ~> Complete
=============================================================================
