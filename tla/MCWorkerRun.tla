----------------------------- MODULE MCWorkerRun -----------------------------
EXTENDS WorkerRun
=============================================================================
