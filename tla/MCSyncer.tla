----------------------------- MODULE MCSyncer -----------------------------
EXTENDS WatcherSyncer
============================================================================
