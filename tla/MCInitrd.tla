------------------------------ MODULE MCInitrd ------------------------------
(* Small initrd images, whole and without a trailer, and the mounts.       *)
EXTENDS Initrd

Hosts == <<"etc", "hosts">>
Conf == <<"run", "app", "conf">>

MCRecord(n, i) == Item(IF n = <<"etc">> THEN "dir" ELSE "file", n, i, "image")
MCRecords == {MCRecord(n, i) : n \in {<<"etc">>, Hosts, <<"init">>}, i \in {1, 3}}
MCBodies == {<<>>} \cup {<<r>> : r \in MCRecords}
              \cup (MCRecords \X {r \in MCRecords : r.ino = 3})
MCImages ==
    {Append(b, Trailer) : b \in MCBodies}
        \cup {<<>>, <<MCRecord(<<"init">>, 1)>>}
        \cup {<<MCRecord(<<"etc">>, 2), Trailer, MCRecord(Hosts, 1), Trailer>>}
        \cup {<<MCRecord(<<"run">>, 2), MCRecord(UrunitConf.name, 1), Trailer>>}

MCMountLists ==
    { <<[src |-> "h", dest |-> Hosts]>>,
      <<[src |-> "c", dest |-> Conf], [src |-> "h", dest |-> Hosts]>>,
      <<[src |-> "c", dest |-> Hosts], [src |-> "h", dest |-> Hosts]>>,
      <<[src |-> "c", dest |-> UrunitConf.name]>> }
=============================================================================
