---------------------------- MODULE MCLifecycle ----------------------------
(* Lifecycle with a few files for correctgps.conf.                          *)
EXTENDS Lifecycle

Item(name, value) == [kind |-> "item", name |-> name, value |-> value]
Other(kind) == [kind |-> kind, name |-> "", value |-> Word]

\* No worker, since the first MAX_WORKER is no number; more than there can be;
\* a line without =.  A file that is not found gives one worker.
NoWorker == <<Item("MAX_WORKER", Word), Item("LINK_TIMEOUT", 5), Item("MAX_WORKER", 1)>>

ManyWorkers == <<Other("skip"), Item("MAX_WORKER", -1)>>

NoEqualSign == <<Item("LINK_TIMEOUT", 5), Other("bare")>>

MCFiles == {NoWorker, ManyWorkers, NoEqualSign}

MCHosts ==
    { [std |-> Std, syslogd |-> FALSE, condWaits |-> TRUE],
      [std |-> {1}, syslogd |-> TRUE, condWaits |-> FALSE] }
=============================================================================
