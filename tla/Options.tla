-------------------------------- MODULE Options --------------------------------
(***************************************************************************)
(* The options of the command: cmd/virtual-kubelet/app/opts.go, flag.go    *)
(* and node.go.  An option's value is "unset" (Go's zero value),           *)
(* "default", "given" (usable, from a flag or the environment), "bad"      *)
(* (given, and refused by some check) or "negative" (a number of workers   *)
(* that no check refuses).  Of the options that nothing below asks about   *)
(* and no flag sets kubeClusterDomain is kept.  nodeName and kubeConfig,   *)
(* whose defaults may be empty, are left out.                              *)
(***************************************************************************)

\* The options SetDefaultOpts has filled in when it parses KUBELET_PORT, and
\* those that come after it.  startupTimeout has no default.
Early == {"os", "metricsAddr", "podSyncWorkers"}
Late  == {"listenPort", "taintEffect", "kubeClusterDomain"}

OptionNames == Early \cup Late \cup {"startupTimeout"}
OptionValue == {"unset", "default", "given", "bad", "negative"}
Opts        == [OptionNames -> OptionValue]

NoOpts == [o \in OptionNames |-> "unset"]

Filled(c, S) == [o \in OptionNames |-> IF o \in S /\ c[o] = "unset" THEN "default" ELSE c[o]]

\* kubeletPort: what KUBELET_PORT holds; "bad" is not a number.
PortError(c, kubeletPort) == c["listenPort"] = "unset" /\ kubeletPort = "bad"

\* An error leaves the options that come later as they were.
SetDefaultOpts(c, kubeletPort) ==
    IF PortError(c, kubeletPort)
    THEN Filled(c, Early)
    ELSE Filled([c EXCEPT !["listenPort"] = IF @ = "unset" THEN kubeletPort ELSE @],
                Early \cup Late)

\* The flags the command line holds, each with its value, replace what is there:
\* an empty metrics-addr takes the default away again.
Flags == [os: {"default", "bad"}, podSyncWorkers: {"default", "bad", "negative"},
          metricsAddr: {"default", "unset"}, startupTimeout: {"unset", "given"}]

WithFlags(c, flags) ==
    [o \in OptionNames |->
       IF o \in DOMAIN flags /\ flags[o] # "default" THEN flags[o] ELSE c[o]]

\* The environment overrides the effect, an empty one takes the default; getTaint
\* is not called for a node without taint.
TaintRefused(c, disableTaint, effectEnv) ==
    ~disableTaint /\ "bad" = IF effectEnv = "unset" THEN c["taintEffect"] ELSE effectEnv

\* What runRootCommand refuses before it does anything.  The number of workers
\* is compared with zero alone.
Refused(c, disableTaint, effectEnv) ==
    \/ c["os"] \in {"unset", "bad"}
    \/ c["podSyncWorkers"] \in {"unset", "bad"}
    \/ TaintRefused(c, disableTaint, effectEnv)
================================================================================
