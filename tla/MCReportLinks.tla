--------------------------- MODULE MCReportLinks ---------------------------
(***************************************************************************)
(* ReportLinks with a clock that stops, over configurations at the edges   *)
(* of the lookback.                                                        *)
(***************************************************************************)
EXTENDS ReportLinks, FiniteSets

CONSTANTS Start,    \* hours of the day at which a behaviour begins
          Horizon,  \* bound: hours
          MaxLinks  \* bound: links clients keep

Conf(b, c, r) == [backend |-> b, checkTTL |-> c, reportTTL |-> r]

(* The defaults, reports that outlive their checks and the reverse, and    *)
(* with MinIO the longest lifetimes each property allows, and beyond.      *)
MCConfig == {Conf("local", 24, 24), Conf("local", 36, 60), Conf("local", 48, 24),
             Conf("minio", 24, 24), Conf("minio", 144, 144), Conf("minio", 120, 192),
             Conf("minio", 144, 192)}

MinIOConfig == {Conf("minio", 24, 24)}

MCInit == LinksInit /\ now \in Start
MCNext == LinksNext /\ now' <= Horizon /\ Cardinality(links') <= MaxLinks

MCSpec == MCInit /\ [][MCNext]_linksVars

(* The cleanup loops tick for ever; nobody is obliged to ask.              *)
MCFairSpec == MCSpec /\ WF_linksVars(CleanupReports)

=============================================================================
