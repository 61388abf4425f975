---- MODULE MCBackgroundSimulation ----
\* Instance of BackgroundSimulation for TLC.
EXTENDS BackgroundSimulation
====
