------------------------------ MODULE MCMounts ------------------------------
(* Hosts whose mounts are shared or private, with the bundle's directory a *)
(* mount of its own or not, and volumes from a mount with flags that has   *)
(* another one below it.                                                   *)
EXTENDS Mounts

MCNames == OwnNames \cup
    {"root", "srv", "data", "sub", "sys", "rbind", "rprivate", "rshared", "rw", "suid",
     "noatime", "relatime", "dev"}

MCHost(shared, run, flags) ==
    LET group(g) == IF shared THEN g ELSE "none"
    IN  << Mount(<<>>, <<>>, group("root"), {"relatime"}) >>
        \o (IF run THEN <<Mount(<<"run">>, <<"run">>, group("run"), {"nosuid", "relatime"})>> ELSE <<>>)
        \o << Mount(CntrRootfs, CntrRootfs, group("rootfs"), {"relatime"}),
              Mount(<<"srv">>, <<"srv">>, group("srv"), flags),
              Mount(<<"srv", "sub">>, <<"srv", "sub">>, group("sub"), {"nodev", "relatime"}) >>

MCHostTables ==
    {MCHost(s, r, f) : s \in BOOLEAN, r \in BOOLEAN,
                       f \in {{"ro", "relatime"}, {"nosuid", "strictatime"}, {"noatime"}}}

MCOptions ==
    { <<"rbind">>, <<"rbind", "private">>, <<"rbind", "rprivate", "ro">>, <<"bind", "ro", "rw", "nosuid">>,
      <<"rbind", "rshared", "nosuid", "suid">>, <<"bind", "noatime", "ro">> }

MCMount(type, src, dest, opts) == [type |-> type, src |-> src, dest |-> dest, opts |-> opts]
MCDefault == << MCMount("proc", <<>>, <<"proc">>, <<"nosuid">>),
                MCMount("none", <<"sys">>, <<"sys">>, <<"rbind">>) >>
MCContainerMounts ==
    { MCDefault, <<MCMount("rbind", <<"srv">>, <<"data">>, <<"ro">>)>> } \cup
    { MCDefault \o << MCMount("bind", <<"srv">>, <<"data">>, a),
                      MCMount("none", <<"srv">>, <<"data", "sub">>, b) >> :
        a \in MCOptions, b \in MCOptions } \cup
    { << MCMount("bind", <<"srv">>, <<"data">>, <<"bind">>),
         MCMount("bind", <<"usr">>, <<"data">>, <<"bind", "ro">>) >>,
      << MCMount("bind", CntrRootfs, <<>>, <<"bind", "nodev", "dev">>),
         MCMount("bind", MonRootfs \o <<"tmp">>, <<"data">>, <<"bind", "ro">>) >> }
=============================================================================
