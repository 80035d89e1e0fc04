---- MODULE MCXLMJRoom ----
EXTENDS XLMJRoom
====
