------------------------------ MODULE GRouteMVP ------------------------------
(***************************************************************************)
(* The function run of the g-route prototype: epochs of training reads, in *)
(* a random order, through the HostCache, and from time to time a          *)
(* checkpoint through DirectPathStub.  An exception of the file system     *)
(* ends the program without a report.  The k-th checkpoint is named k, as  *)
(* the files of the checkpoints are; Paths are the other files.            *)
(***************************************************************************)
EXTENDS HostCache

CONSTANTS Epochs,        \* args.epochs
          Intervals,     \* the values of args.checkpoint_interval
          VerifyLoad     \* args.verify_checkpoint_load

ASSUME GRouteAssumption ==
    /\ Epochs \in Nat /\ Intervals \subseteq Nat
    /\ VerifyLoad \in BOOLEAN
    /\ Paths \cap (1 .. Epochs) = {}

VARIABLES pc,
          interval,
          samples,
          epoch,         \* epochs completed
          order,         \* what is left to read of this epoch's order
          labels,        \* the labels in the profile log, of each file
          saved          \* route_counts["DirectPathStub"]

vars == <<hostVars, pc, interval, samples, epoch, order, labels, saved>>
loopVars == <<interval, samples, epoch, order, labels, saved>>

Files == Paths \cup 1 .. Epochs

RouteTypeOK ==
    /\ HostTypeOK
    /\ pc \in {"discover", "label", "read", "checkpoint", "save", "load", "done", "raised"}
    /\ interval \in Intervals
    /\ samples \subseteq Paths /\ order \subseteq samples
    /\ epoch \in 0 .. Epochs
    /\ labels \in [Files -> Nat] /\ saved \in 0 .. Epochs

Init ==
    /\ HostInit
    /\ pc = "discover" /\ interval \in Intervals
    /\ samples = {} /\ epoch = 0 /\ order = {}
    /\ labels = [f \in Files |-> 0] /\ saved = 0
-----------------------------------------------------------------------------
\* The files of the training directory, or synthetic ones.
Discover(found) ==
    /\ pc = "discover"
    /\ samples' = found
    /\ pc' = IF found = {} THEN "raised" ELSE "label"
    /\ UNCHANGED <<hostVars, interval, epoch, order, labels, saved>>

\* label_once; a file that has its label gets no other one.
LabelOnce(f) ==
    labels' = [labels EXCEPT ![f] = IF @ = 0 THEN 1 ELSE @]

LabelSample(f) ==
    /\ pc = "label" /\ f \in samples /\ labels[f] = 0
    /\ LabelOnce(f)
    /\ UNCHANGED <<hostVars, pc, interval, samples, epoch, order, saved>>

\* The head of the loop: the next epoch, with all samples, or the end.
StartEpoch ==
    /\ pc = "label" /\ \A f \in samples : labels[f] > 0
    /\ pc' = IF epoch < Epochs THEN "read" ELSE "done"
    /\ order' = IF epoch < Epochs THEN samples ELSE {}
    /\ UNCHANGED <<hostVars, interval, samples, epoch, labels, saved>>

ReadSample(f) ==
    /\ pc = "read" /\ f \in order
    /\ ReadHit(f) \/ \E size \in Sizes : ReadMiss(f, size)
    /\ order' = order \ {f}
    /\ UNCHANGED <<pc, interval, samples, epoch, labels, saved>>

Store == pc = "read" /\ HostStep /\ UNCHANGED <<pc, loopVars>>

\* The samples are read: a checkpoint after every interval-th epoch.  The
\* remainder by 0 raises.
EndEpoch ==
    /\ pc = "read" /\ order = {} /\ incoming = None
    /\ epoch' = epoch + 1
    /\ pc' = IF interval = 0 THEN "raised"
             ELSE IF (epoch + 1) % interval = 0 THEN "checkpoint" ELSE "label"
    /\ UNCHANGED <<hostVars, interval, samples, order, labels, saved>>

\* Fault: the checkpoint is written without a label.
LabelNothing ==
    /\ pc = "checkpoint"
    /\ pc' = "save"
    /\ UNCHANGED <<hostVars, loopVars>>

LabelCheckpoint ==
    /\ pc = "checkpoint"
    /\ LabelOnce(epoch)
    /\ pc' = "save"
    /\ UNCHANGED <<hostVars, interval, samples, epoch, order, saved>>

\* DirectPathStub.save, past the cache.
Save ==
    /\ pc = "save"
    /\ saved' = saved + 1
    /\ pc' = IF VerifyLoad THEN "load" ELSE "label"
    /\ UNCHANGED <<hostVars, interval, samples, epoch, order, labels>>

Load ==
    /\ pc = "load"
    /\ pc' = "label"
    /\ UNCHANGED <<hostVars, loopVars>>

\* A file cannot be read or written.
Raise ==
    /\ \/ pc = "read" /\ \E f \in order : ReadRaises(f)
       \/ pc \in {"label", "checkpoint", "save", "load"} /\ UNCHANGED hostVars
    /\ pc' = "raised"
    /\ UNCHANGED loopVars

Ended == pc \in {"done", "raised"} /\ UNCHANGED vars

Next ==
    \/ \E found \in SUBSET Paths : Discover(found)
    \/ \E f \in Paths : LabelSample(f) \/ ReadSample(f)
    \/ StartEpoch \/ Store \/ EndEpoch \/ LabelCheckpoint \/ Save \/ Load
    \/ Raise \/ Ended

Spec == Init /\ [][Next]_vars
-----------------------------------------------------------------------------
\* "Each touched file is labeled ... before use", and a report is of a whole
\* run: every sample was read once in every epoch, what it calls hits, the logical
\* reads that are no physical ones, came from the cache, the checkpoints were
\* written when due, and the log has one label for each file used.
ReportIsWhole ==
    /\ \A f \in read : labels[f] = 1
    /\ pc = "save" => labels[epoch] = 1
    /\ pc = "done" =>
           /\ logical_reads = Epochs * Cardinality(samples)
           /\ logical_reads - physical_reads = hits
           /\ Epochs > 0 => read = samples
           /\ Epochs > 0 => saved = Epochs \div interval
           /\ \A f \in Files : labels[f] =
                  IF f \in samples \/ (f \in 1 .. Epochs /\ f % interval = 0) THEN 1 ELSE 0
=============================================================================
