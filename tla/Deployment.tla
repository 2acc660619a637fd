----------------------------- MODULE Deployment -----------------------------
(***************************************************************************)
(* An upgrade of the service under requests that take long: the binary of  *)
(* gcs-distill is replaced by install-binary.py while a client follows a   *)
(* log through the proxy or waits for a summary.  The service does not     *)
(* drain its requests when it is stopped: they end with the process.       *)
(*                                                                         *)
(* The client makes one request, of either kind.  The two share nothing    *)
(* but the process they run in.                                            *)
(***************************************************************************)
EXTENDS BinaryInstall, LogProxy, ProjectSummary

vars == <<installVars, proxyVars, summaryVars>>

TypeOK == InstallTypeOK /\ ProxyTypeOK /\ SummaryTypeOK

Init == InstallInit /\ ProxyInit /\ SummaryInit

Up == service # NoFile

(* systemctl stop                                                          *)
Stop == StopService /\ CutStream /\ CutSummary

Install ==
    \/ OtherStep /\ UNCHANGED <<proxyVars, summaryVars>>
    \/ Stop

Operator ==
    /\ \/ \E v \in Releases : Begin(v)
       \/ Killed
       \/ Boot
    /\ UNCHANGED <<proxyVars, summaryVars>>

Ask ==
    /\ Up /\ client = "none" /\ summary = "none"
    /\ \/ Request /\ UNCHANGED summaryVars
       \/ Summarise /\ UNCHANGED proxyVars
    /\ UNCHANGED installVars

Stream(A) == A /\ UNCHANGED <<installVars, summaryVars>>

Serve == Stream(Handler) \/ Stream(LogsPump) \/ Stream(InputPump)

Outside == Stream(OutsideStep)

Answer == Answering /\ UNCHANGED <<installVars, proxyVars>>

(* Another request of the service.                                         *)
RunCreated ==
    /\ Up
    /\ \E r \in Runs : InsertRun(r)
    /\ UNCHANGED <<installVars, proxyVars>>

Next == Install \/ Operator \/ Ask \/ Serve \/ Outside \/ Answer \/ RunCreated

Spec == Init /\ [][Next]_vars

(* The script goes on unless it is killed; the goroutines of the service   *)
(* run; gcs-v2 sends what it has; a client that stays reads.               *)
FairSpec ==
    /\ Spec
    /\ WF_vars(Install)
    /\ WF_vars(Stream(Handler)) /\ WF_vars(Stream(LogsPump)) /\ WF_vars(Stream(InputPump))
    /\ WF_vars(Stream(GcsSends))
    /\ WF_vars(Stream(ClientReads))

-----------------------------------------------------------------------------
(* No upgrade tears the binary the service is started from, wherever a     *)
(* copy is cut short: only the rollback writes into the file itself.       *)
OnlyRollbackTears == [][target' = Torn /\ target # Torn => script = "restore"]_vars

(* A rollback returns to a binary that has run on this host, also after    *)
(* scripts that were killed between two steps, unless a copy was cut short *)
(* (the backup of the first upgrade is kept even if it is torn).           *)
RollbackHasRun == script = "restart" => target \in hasRun \/ cuts > 0

(* A service that an installation stopped runs again, with the new binary  *)
(* or the one the backup holds, from before the first upgrade, unless the  *)
(* script was killed or a copy cut short.                                  *)
ServiceReturns ==
    script = "replace" ~> service # NoFile \/ kills > 0 \/ cuts > 0

(* A client that sees the end of a stream has the whole log, whatever the  *)
(* order in which the pumps and the connections end, if it sent nothing    *)
(* itself and the connection to gcs-v2 did not break.                      *)
StreamComplete ==
    client = "eof" /\ asked = 0 /\ gcs # "broken" => ended /\ received = written

(* When the container has ended, the handler returns and leaves no pump    *)
(* behind, whichever of the two ends first.                                *)
StreamsEnd ==
    handler = "pumping" /\ ended ~>
        handler = "ended" /\ \A d \in Direction : pump[d] = "gone"

(* A summary counts each run that was there when it began, though inserted *)
(* rows move the pages under it.                                           *)
NoRunMissed ==
    summary = "answered" => \A r \in before : seen[r] > 0

(* A summary during which no run is created counts each run once, and      *)
(* its total, which another statement reads, agrees.                       *)
QuietSummaryExact ==
    summary = "answered" /\ quiet =>
        /\ total = Len(listed)
        /\ \A r \in Runs : seen[r] = IF r \in before THEN 1 ELSE 0
=============================================================================
