---------------------- MODULE ProposalReviewProperties ----------------------
(***************************************************************************)
(* What three validators, written apart, owe each other.                   *)
(***************************************************************************)
EXTENDS ProposalReview

\* What either validator of proposals reports of the keys.
ProposalCodes ==
  (ShapeViolations(proposal, packet) \cup SafetyViolations(proposal))
  \cap {"P1", "P2", "P3", "P4", "P5", "P6", "P7", "P8"}

PacketCodes == PacketViolations(proposal, packet)

AllStringKeys(obj) == \A entry \in KeysAndValues(obj) : entry[1] # NonString

\* One validator looks at the top level, another below it, each with its own
\* vocabularies: nothing that is reported ceases to be when it is moved one
\* level down, into a dict or into a list, or is given company.  (Under a key
\* that is not a string, which JSON has not, the nested validator does not
\* look.)
NestingHidesNothing ==
  [][/\ PacketCodes \subseteq PacketCodes'
     /\ AllStringKeys(proposal)' => ProposalCodes \subseteq ProposalCodes']_reviewVars

\* What the packet validator reports by a key's name (a probability, a verdict
\* or a mutation) the validators of proposals report too, at whatever depth:
\* a proposal they accept can be shown as an interpretation of the packet.
ReviewersAgree ==
  AllStringKeys(proposal) =>
    /\ "F3" \in PacketCodes => "P2" \in ProposalCodes
    /\ "F10" \in PacketCodes => "P1" \in ProposalCodes
    /\ "F13" \in PacketCodes => "P5" \in ProposalCodes
=============================================================================
