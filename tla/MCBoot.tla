---- MODULE MCBoot ----
EXTENDS Boot
====
