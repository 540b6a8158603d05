------------------------------ MODULE MCFiles ------------------------------
(* Files with a small tree and the device files, for TLC. *)
EXTENDS Files, TLC

CONSTANTS p1, p2

\* As in the kernel's ramdisk: a program in a directory, and an empty file
\* behind it.
MClistdir == (<<>> :> <<"bin", "logo">>) @@ (<<"bin">> :> <<"init", "ls">>)
MCgetsize == (<<"bin", "init">> :> 3) @@ (<<"bin", "ls">> :> 1) @@ (<<"logo">> :> 0)
MCstrlen == ("bin" :> 1) @@ ("init" :> 2) @@ ("ls" :> 1) @@ ("logo" :> 2)

InRamdisk(path) == <<"mnt", "ramdisk">> \o path
MCPathArg ==
  {InRamdisk(<<>>), InRamdisk(<<"bin", "ls">>),
   <<"dev", "tty0">>, <<"dev", "fb0">>, <<"dev", "kb0">>}
MCDeviceName ==
  ("tty0" :> [type |-> "tty", number |-> 0])
    @@ ("fb0" :> [type |-> "fb", number |-> 0])
    @@ ("kb0" :> [type |-> "kb", number |-> 0])
    @@ ("xd0" :> [type |-> "xd", number |-> 0])

Select(nfds, r, w, e) ==
  [call |-> "select", nfds |-> nfds, readfds |-> r, writefds |-> w, errorfds |-> e]
MCSelectArg == {Select(2, {1}, {0}, {})}
=============================================================================
