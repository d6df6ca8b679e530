--------------------------- MODULE DarwinCollectors ---------------------------
(* The collectors of macOS (internal/collect/darwin.go, assess_darwin.go).  *)
EXTENDS BaseCollectors

\* systemProfiler: a document without items is an error, errNoProfilerData.
Profile(dataType) == NotEmpty(Must(dataType))

DarwinHardware == Records("hardware", Minimal, <<Profile("SPHardwareDataType")>>)
DarwinBios     == Records("bios", Quick, <<Profile("SPHardwareDataType")>>)
DarwinVirtualization == Records("virtualization", Minimal, <<Profile("SPHardwareDataType")>>)
DarwinSoftware == Records("software", Quick, <<Profile("SPApplicationsDataType")>>)
DarwinGraphics == Records("graphics", Quick, <<Profile("SPDisplaysDataType")>>)

\* No iBridge: no record, and errNoProfilerData is none.
DarwinTPM ==
    Records("tpm", Quick, <<[Profile("SPiBridgeDataType") EXCEPT !.empty = "nothing"]>>)

\* The users of the directory; if it cannot be read, that is an error, and
\* the users of /etc/passwd.
DarwinLocalUsers ==
    Records("local_users", Quick,
            <<[Enough(Keyed(Noted("dscl"), "user")) EXCEPT !.empty = "end"],
              Scanned(Keyed(Must("/etc/passwd"), "user"))>>)

\* lsof ends with an error where nothing listens.
DarwinListeningPorts == Records("listening_ports", Full, <<NotEmpty(Must("lsof"))>>)

-----------------------------------------------------------------------------
(* Assessment.                                                              *)

DarwinEnrich == <<Fields(Maybe("route get default")), Fields(Maybe("/etc/resolv.conf"))>>

\* Without a Wi-Fi port, no record.
DarwinWifi ==
    Records("wifi_networks", Quick,
            <<NotEmpty(OrNothing("networksetup ports")),
              Fields(Maybe("networksetup airport")), Fields(Maybe("airport"))>>)

DarwinProxy  == OneRecord("proxy_config", Quick, <<Fields(OrNothing("scutil"))>>)
DarwinRoutes == Records("routes", Quick, <<Must("netstat")>>)
DarwinArp    == Records("arp_neighbors", Quick, <<Must("arp")>>)

\* A property list of a loaded job is left out: the daemons are loaded, the
\* agents are not.
DarwinScheduledTasks ==
    Records("scheduled_tasks", Full,
            <<Maybe("launchctl list"), Unlisted(Maybe("/Library/LaunchDaemons")),
              Maybe("/Library/LaunchAgents")>>)

\* No readable configuration: no sshd.
DarwinRemoteAccess == OneRecord("remote_access", Quick, <<Fields(Maybe("sshd_config"))>>)

DarwinPrivilegedMembers ==
    Records("privileged_members", Quick,
            <<Keyed(Maybe("/etc/group"), "member"), Keyed(Maybe("dscacheutil"), "member")>>)

DarwinPasswordPolicy == OneRecord("password_policy", Quick, <<Fields(Maybe("pwpolicy"))>>)

DarwinUpdateHealth ==
    OneRecord("update_health", Quick,
              <<Fields(Maybe("InstallHistory")), Fields(Maybe("AutomaticCheck"))>>)

DarwinReliability == OneRecord("reliability", Full, <<Fields(Maybe("last"))>>)

\* One of the two browsers that are asked for their version.
DarwinRuntimes ==
    Records("runtimes", Quick,
            <<Maybe("python3"), Maybe("safari"), Maybe("firefox"), Maybe("dotnet")>>)

-----------------------------------------------------------------------------
DarwinBase ==
    <<BaseHost, BaseNetwork(DarwinEnrich), BaseVolumes, BaseOS, BaseProcessors, BaseMemory>>

DarwinPlatform ==
    <<DarwinHardware, DarwinBios, DarwinVirtualization, DarwinSoftware, DarwinGraphics,
      DarwinTPM, DarwinLocalUsers, DarwinListeningPorts, DarwinWifi, DarwinProxy,
      DarwinRoutes, DarwinArp, DarwinScheduledTasks, DarwinRemoteAccess,
      DarwinPrivilegedMembers, DarwinPasswordPolicy, DarwinUpdateHealth,
      DarwinReliability, DarwinRuntimes>>
=============================================================================
