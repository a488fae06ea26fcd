---------------------------- MODULE MCStackSaves ----------------------------
(***************************************************************************)
(* Two requests at once, for TLC.  A behaviour is in one of two settings:  *)
(* saves that fail and crash over one env file, or saves beside an edit or *)
(* another selection of files, with two env files to select from.          *)
(***************************************************************************)
EXTENDS StackWrite

CONSTANTS s1, s2, env1, env2

VARIABLE focus

\* Bound: over one env file there are up to MaxFaults failures and crashes; with two,
\* one edit or one failure or crash.
Within ==
    /\ focus = "crashes" =>
         /\ disk[env2] = Missing /\ edits = 0
         /\ sel.name = env1 /\ sel.listed \subseteq {env1}
         /\ \A s \in Savers : req[s].kind # "none" =>
              req[s].file = env1 /\ req[s].listed \subseteq {env1}
    /\ focus = "selection" => edits + faults <= 1

MCInit ==
    /\ focus \in {"crashes", "selection"}
    /\ Init /\ Within
    /\ focus = "selection" =>
         sel.name = env1 /\ sel.listed \subseteq {env1} /\ \A f \in Files : disk[f] # Blank
MCNext == Next /\ UNCHANGED focus /\ Within'
MCFairSpec ==
    MCInit /\ [][MCNext]_<<vars, focus>> /\ WF_vars(TxStep) /\ WF_vars(RecoveryStep)
=============================================================================
