------------------------------ MODULE ReasonLab ------------------------------
(***************************************************************************)
(* The labelling workflow of the blocker evaluation                        *)
(* (scripts/reason-lab.mjs): two reviewers label every sample, a third     *)
(* person settles their disagreements.  Each command is a process of its   *)
(* own: it reads the whole packet, changes its copy, writes the copy to a  *)
(* temporary file of a fixed name and renames that, then does the same to  *)
(* the status file.  Commands may overlap and may be stopped.              *)
(***************************************************************************)
EXTENDS Naturals, FiniteSets

CONSTANTS Commands,    \* processes
          Samples, People,
          Reasons,     \* what a label may say: reasons, abstaining, a taxonomy gap
          MaxCommands

VARIABLES
  packet, packetTmp,   \* blocker-labeling-packet.json and its .tmp
  status, statusTmp,   \* blocker-evaluation-status.json and its .tmp
  at, copy,            \* where a command is, and its copy of the packet
  begun,               \* commands begun so far
  disturbed            \* commands overlapped, or one was stopped between its two files

labVars == <<packet, packetTmp, status, statusTmp, at, copy, begun, disturbed>>
------------------------------------------------------------------------------
emptyReview == [by |-> "nobody", says |-> "nothing"]
unlabelled == [reviewer_a |-> emptyReview, reviewer_b |-> emptyReview,
               adjudication |-> emptyReview, over |-> {}]
NoFile == [written |-> FALSE]

done(review) == review.says # "nothing"
outcomes(s) == {s.reviewer_a.says, s.reviewer_b.says}
labelled(s) == done(s.reviewer_a) /\ done(s.reviewer_b)

\* recomputeSample
adjudicationState(s) ==
  IF ~labelled(s) THEN "awaiting_labels"
  ELSE IF s.reviewer_a.by = s.reviewer_b.by THEN "reviewer_identity_invalid"
  ELSE IF s.reviewer_a.says = s.reviewer_b.says THEN "agreement"
  ELSE IF ~done(s.adjudication) THEN "disagreement"
  ELSE IF s.adjudication.by \in {s.reviewer_a.by, s.reviewer_b.by} THEN "reviewer_identity_invalid"
  ELSE "adjudicated"

\* What the status file says of a packet.
statusOf(p) ==
  [labels_complete |-> \A s \in Samples : labelled(p[s]),
   adjudication_complete |-> \A s \in Samples : adjudicationState(p[s]) \in {"agreement", "adjudicated"}]
------------------------------------------------------------------------------
\* label, abstain and taxonomy-gap
Labelled(p, s, slot, who, says) ==
  [p EXCEPT ![s][slot] = [by |-> who, says |-> says],
            ![s].adjudication = emptyReview, ![s].over = {}]

Adjudicated(p, s, who, says) ==
  [p EXCEPT ![s].adjudication = [by |-> who, says |-> says], ![s].over = outcomes(p[s])]

other(slot) == IF slot = "reviewer_a" THEN "reviewer_b" ELSE "reviewer_a"

\* Anyone may label.
labelsByAnyone(p) ==
  {Labelled(p, s, slot, who, says) :
     s \in Samples, slot \in {"reviewer_a", "reviewer_b"}, who \in People, says \in Reasons}

\* The packets that one accepted label makes of a packet.
labels(p) ==
  UNION {{Labelled(p, s, slot, who, says) : says \in Reasons, who \in People \ {p[s][other(slot)].by}} :
           s \in Samples, slot \in {"reviewer_a", "reviewer_b"}}

adjudications(p) ==
  UNION {{Adjudicated(p, s, who, says) :
            says \in Reasons, who \in People \ {p[s].reviewer_a.by, p[s].reviewer_b.by}} :
           s \in {x \in Samples : labelled(p[x]) /\ Cardinality(outcomes(p[x])) = 2}}

invalidated == [s \in Samples |-> unlabelled]
------------------------------------------------------------------------------
LabInit ==
  /\ packet = invalidated /\ packetTmp = NoFile
  /\ status = statusOf(invalidated) /\ statusTmp = NoFile
  /\ at = [c \in Commands |-> "idle"] /\ copy = [c \in Commands |-> NoFile]
  /\ begun = 0 /\ disturbed = FALSE

\* A command reads the packet and changes its copy, if it is accepted.
BeginCommand(c) ==
  /\ at[c] = "idle" /\ begun < MaxCommands
  /\ \E p \in labels(packet) \cup adjudications(packet) \cup {invalidated} :
       copy' = [copy EXCEPT ![c] = p]
  /\ at' = [at EXCEPT ![c] = "changed"] /\ begun' = begun + 1
  /\ disturbed' = (disturbed \/ \E d \in Commands : at[d] # "idle")
  /\ UNCHANGED <<packet, packetTmp, status, statusTmp>>

WritePacket(c) ==
  /\ at[c] = "changed"
  /\ packetTmp' = [written |-> TRUE, packet |-> copy[c]]
  /\ at' = [at EXCEPT ![c] = "packet written"]
  /\ UNCHANGED <<packet, status, statusTmp, copy, begun, disturbed>>

\* The temporary file of the moment, whoever wrote it; without one the
\* command fails.
RenamePacket(c) ==
  /\ at[c] = "packet written"
  /\ IF packetTmp.written
     THEN /\ packet' = packetTmp.packet /\ packetTmp' = NoFile
          /\ at' = [at EXCEPT ![c] = "packet renamed"] /\ UNCHANGED <<copy, disturbed>>
     ELSE /\ at' = [at EXCEPT ![c] = "idle"] /\ copy' = [copy EXCEPT ![c] = NoFile]
          /\ disturbed' = TRUE /\ UNCHANGED <<packet, packetTmp>>
  /\ UNCHANGED <<status, statusTmp, begun>>

\* The status of the command's own copy.
WriteStatus(c) ==
  /\ at[c] = "packet renamed"
  /\ statusTmp' = [written |-> TRUE, status |-> statusOf(copy[c])]
  /\ at' = [at EXCEPT ![c] = "status written"]
  /\ UNCHANGED <<packet, packetTmp, status, copy, begun, disturbed>>

\* Errors with the status file are swallowed.
RenameStatus(c) ==
  /\ at[c] = "status written"
  /\ IF statusTmp.written
     THEN status' = statusTmp.status /\ statusTmp' = NoFile
     ELSE UNCHANGED <<status, statusTmp>>
  /\ at' = [at EXCEPT ![c] = "idle"] /\ copy' = [copy EXCEPT ![c] = NoFile]
  /\ UNCHANGED <<packet, packetTmp, begun, disturbed>>

\* A command is stopped at any point.
Stop(c) ==
  /\ at[c] # "idle"
  /\ at' = [at EXCEPT ![c] = "idle"] /\ copy' = [copy EXCEPT ![c] = NoFile]
  /\ disturbed' = (disturbed \/ at[c] \in {"packet renamed", "status written"})
  /\ UNCHANGED <<packet, packetTmp, status, statusTmp, begun>>

LabNext ==
  \E c \in Commands :
    BeginCommand(c) \/ WritePacket(c) \/ RenamePacket(c) \/ WriteStatus(c) \/ RenameStatus(c) \/ Stop(c)

LabSpec == LabInit /\ [][LabNext]_labVars
------------------------------------------------------------------------------
(* Properties                                                              *)

\* Whatever is relabelled, settled, thrown away and labelled again, by
\* commands that overlap and stop anywhere: nobody holds two of the three
\* parts in one sample.
PartsAreSeparate ==
  \A s \in Samples : adjudicationState(packet[s]) # "reviewer_identity_invalid"

\* A verdict that settles a disagreement was given over the labels that stand.
VerdictFitsLabels ==
  \A s \in Samples : done(packet[s].adjudication) =>
    packet[s].over = outcomes(packet[s]) /\ Cardinality(packet[s].over) = 2

\* While commands come one after another and none is stopped between its two
\* files, the status file tells what the packet holds when no command is under
\* way, whatever was stopped before its first rename and left behind.
StatusFitsPacket ==
  ~disturbed /\ (\A c \in Commands : at[c] = "idle") => status = statusOf(packet)

\* Whatever commands overlap, stop anywhere, relabel and throw away: the three
\* parts of a sample stay apart, its verdict fits its labels, and an orderly
\* laboratory knows how far it is.
LabelsStand ==
  /\ PartsAreSeparate
  /\ VerdictFitsLabels
  /\ StatusFitsPacket
==============================================================================
