------------------------------ MODULE MCDrivers ------------------------------
(***************************************************************************)
(* The console and the disk driver side by side in one state graph: a      *)
(* behaviour is one of the driver which; the other stays in one of its     *)
(* initial states.                                                         *)
(***************************************************************************)
EXTENDS MCConsole, Lhd

VARIABLE which

DriversInit ==
  /\ which \in {"console", "lhd"}
  /\ Init /\ LhdInit
  /\ which = "console" => /\ lh_buf = (CHOOSE d \in Data : TRUE)
                          /\ \A s \in Sectors : disk[s] = lh_buf

DriversNext ==
  \/ which = "console" /\ Next /\ UNCHANGED <<which, l_vars>>
  \/ which = "lhd" /\ LhdNext /\ UNCHANGED <<which, vars>>

\* The fairness of each driver, asked of the one that runs.
DriversFairness ==
  /\ \A t \in Threads : WF_vars(which = "console" /\ Step(t))
  /\ WF_vars(which = "console" /\ lser_irq) /\ WF_vars(which = "console" /\ Sent)
  /\ \A t \in LThreads : WF_l_vars(which = "lhd" /\ LhdStep(t))
  /\ WF_l_vars(which = "lhd" /\ Disk) /\ WF_l_vars(which = "lhd" /\ lhd_irq)

DriversSpec ==
  DriversInit /\ [][DriversNext]_<<which, vars, l_vars>> /\ DriversFairness
==============================================================================
