---- MODULE MCIntentTraffic ----
EXTENDS IntentTraffic
====
