------------------------------ MODULE MCPrepare ------------------------------
(* Images for guests of every kind, by what they ask for and where their   *)
(* configuration is, with and without annotations of the user.             *)
EXTENDS Prepare, TLC

MCPairs == {<<"qemu", "linux">>, <<"firecracker", "linux">>, <<"cloud-hypervisor", "linux">>,
            <<"qemu", "unikraft">>, <<"hyperlight-unikraft", "unikraft">>,
            <<"hvt", "rumprun">>, <<"qemu", "freebsd">>, <<"spt", "linux">>}

MCBase(pair) == ("hypervisor" :> pair[1]) @@ ("type" :> pair[2]) @@ ("binary" :> "kernel")
MCExtras == { <<>>, "initrd" :> "initrd",
              ("block" :> "block") @@ ("blkMntPoint" :> "/"),
              ("block" :> "block") @@ ("blkMntPoint" :> "/data"),
              "block" :> "block" }
MCMounts == {"mountRootfs" :> "true", "mountRootfs" :> "false", "mountRootfs" :> "maybe"}
MCValues == {MCBase(p) @@ e @@ m : p \in MCPairs, e \in MCExtras, m \in MCMounts}
              \cup {("hypervisor" :> "hyperlight-unikraft") @@ ("type" :> "unikraft") @@ ("snapshot" :> "snapshot")}

MCFiles == {"kernel", "initrd", "block", "snapshot", "urunc.json"}
NoJSON == [decodes |-> FALSE, values |-> <<>>]

MCImage(v, where, fs, spec) ==
    [manifest |-> IF where = "json" THEN <<>> ELSE v,
     labels |-> IF where = "labels" THEN ("mountRootfs" :> "true") @@ ("initrd" :> "initrd") ELSE <<>>,
     json |-> IF where = "json" THEN [decodes |-> TRUE, values |-> v] ELSE NoJSON,
     files |-> IF where = "json" THEN MCFiles ELSE MCFiles \ {"snapshot"},
     mounts |-> {"resolv.conf"}, fs |-> fs, spec |-> spec]

MCSpecs == { <<>>, "mountRootfs" :> "true" }
MCContainers ==
    {MCImage(v, w, f, s) : v \in MCValues, w \in {"manifest", "json", "labels"},
                           f \in {"ext4", "ext2"}, s \in MCSpecs}
    \cup {MCImage(MCBase(p) @@ m, w, "ext4", s) :
            p \in {<<"qemu", "linux">>, <<"firecracker", "linux">>}, w \in {"manifest", "json"},
            m \in {"mountRootfs" :> "true"},
            s \in { "urunc_config.runtime.libcontainer" :> "true",
                    "container-name" :> "queue-proxy",
                    ("vAccel" :> "vsock") @@ ("RPCAddress" :> "vsock"),
                    ("vAccel" :> "vsock") @@ ("RPCAddress" :> "unix") }}
    \cup {MCImage(MCBase(p) @@ v, w, "ext4", s) :
            p \in {<<"hyperlight-unikraft", "unikraft">>, <<"hvt", "rumprun">>}, w \in {"manifest", "json"},
            v \in { "ports" :> "80", "netDev" :> "unclean" }, s \in { <<>>, "ports" :> "443" }}

MCHosts == {[fs |-> "", virtiofsd |-> TRUE, tun |-> TRUE], [fs |-> "", virtiofsd |-> FALSE, tun |-> FALSE]}

MCConfigFiles ==
    { [parses |-> FALSE, values |-> DefaultConfig],
      [parses |-> TRUE, values |-> [DefaultConfig EXCEPT !.memory = "0", !.libcontainer = "true"]],
      [parses |-> TRUE, values |-> [DefaultConfig EXCEPT !.memory = "512", !.vAccel = "true",
                                                         !.virtiofsd = ""]] }
==============================================================================
