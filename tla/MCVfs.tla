-------------------------------- MODULE MCVfs --------------------------------
(***************************************************************************)
(* The VFS layer with a file system without a device and a disk that can   *)
(* be mounted.                                                             *)
(***************************************************************************)
EXTENDS Vfs

MCConfig == <<[name |-> "emu0", rawname |-> None, vol |-> None, fs |-> TRUE],
              [name |-> "lhd0", rawname |-> "lhd0raw", vol |-> "vol", fs |-> FALSE]>>
MCPaths == {[start |-> "vol", sub |-> FALSE], [start |-> "lhd0raw", sub |-> FALSE],
            [start |-> "/", sub |-> TRUE], [start |-> ":", sub |-> FALSE]}
MCFiles == {path \in MCPaths : path.start = "vol"}
==============================================================================
