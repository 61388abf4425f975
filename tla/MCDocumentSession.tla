---- MODULE MCDocumentSession ----
\* Instance of DocumentSession for TLC.
EXTENDS DocumentSession
====
