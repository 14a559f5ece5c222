----------------------------- MODULE MCKnowledge ----------------------------
(* An instance of Knowledge for TLC: the site "a" has generated handbooks  *)
(* and the site "b" an upload.  passed_by is history: handbooks that the   *)
(* refreshes so far did not come to, and the last to start has not yet.    *)
EXTENDS Knowledge

CONSTANT Disturbances  \* bounds clicks, faults and foreign chunks together

MCSites  == {"a", "b"}
MCSiteOf == [d \in Docs |-> IF d \in Managed THEN "a" ELSE "b"]

VARIABLE passed_by

HInit == Init /\ passed_by = {}

\* A missing source costs its site; an exception costs what is still to come.
PassedBy ==
  {d \in Managed : \E j \in Jobs :
    \/ SourceMissing(j, SiteOf[d])
    \/ /\ SyncFails(j) \/ EmbeddingFails(j) \/ (ReplaceChunks(j) /\ Aborted(j))
       /\ d \in job[j].todo \/ SiteOf[d] \in job[j].sites}

HNext ==
  /\ Next /\ hands' + faults' + ingested' <= Disturbances
  /\ passed_by' = IF \E j \in Jobs : StartRefresh(j) THEN {} ELSE passed_by \cup PassedBy

HSpec == HInit /\ [][HNext]_<<vars, passed_by>> /\ Fairness

\* Whatever a crash leaves UPLOADED or INDEXING is indexed or reported: the
\* refresh at the next start takes it up, among clicks and edited pages, unless
\* that refresh misses the site's source or an exception ends it before
\* (sync.py:64, :98); then it stays so until somebody refreshes again.
Unsettled(d) == docs[d] # None /\ docs[d].status \in {"UPLOADED", "INDEXING"}
ManagedSettles ==
  \A d \in Managed : Unsettled(d) ~> ~Unsettled(d) \/ d \in passed_by
=============================================================================
