---- MODULE MCCamSession ----
\* Instance of CamSession for TLC.
EXTENDS CamSession
====
