------------------------------ MODULE MC_AgentLoop ------------------------------
EXTENDS AgentLoop
===============================================================================
