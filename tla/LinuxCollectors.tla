--------------------------- MODULE LinuxCollectors ---------------------------
(* The collectors of Linux (internal/collect/linux.go, assess_linux.go).    *)
EXTENDS BaseCollectors

\* Two of eleven DMI files; the others are read like them.
LinuxBios == SomeFields("bios", Quick, <<Attribute("sys_vendor"), Attribute("product_serial")>>)

LinuxVirtualization ==
    OneRecord("virtualization", Minimal,
              <<Attribute("sys_vendor"), Attribute("product_name"), Attribute("/proc/cpuinfo")>>)

\* No such EFI variable: no record.  Fewer than five bytes are an error.
LinuxSecureBoot ==
    Records("secureboot", Minimal,
            <<[NotEmpty(Must("SecureBoot")) EXCEPT !.absent = "nothing"]>>)

LinuxTPM == SomeFields("tpm", Quick, <<Attribute("description"), Attribute("tpm_version_major")>>)

LinuxLocalUsers == Records("local_users", Quick, <<Scanned(Must("/etc/passwd"))>>)

\* The tables that are there, each for itself.
LinuxListeningPorts ==
    Records("listening_ports", Full,
            <<Scanned(IfThere(Noted("/proc/net/tcp"))), Scanned(IfThere(Noted("/proc/net/tcp6"))),
              Scanned(IfThere(Noted("/proc/net/udp"))), Scanned(IfThere(Noted("/proc/net/udp6")))>>)

-----------------------------------------------------------------------------
(* Software: the first package database with rows and no error; rows and    *)
(* errors of those before it are dropped.                                   *)

Package(read) == [IfThere(read) EXCEPT !.rows = "only"]

Dpkg   == Package(Scanned(Noted("dpkg status")))
Rpm    == Package(Noted("rpm -qa"))
\* A package whose description cannot be read is left out, with an error.
Pacman == Package(Scanned(Noted("pacman local")))
Apk    == Package(Scanned(Noted("apk installed")))

LinuxSoftware == Records("software", Quick, <<Dpkg, Rpm, Pacman, Apk>>)

-----------------------------------------------------------------------------
(* Assessment.                                                              *)

LinuxEnrich == <<Fields(Maybe("/proc/net/route")), Fields(Maybe("/etc/resolv.conf")),
                 Fields(Maybe("speed"))>>

LinuxWifi == Records("wifi_networks", Quick,
                     <<OrNothing("/sys/class/net"), Fields(Maybe("iw link"))>>)

\* Without gsettings, or a mode, no record.
LinuxProxy ==
    Records("proxy_config", Quick,
            <<NotEmpty(OrNothing("gsettings mode")), Fields(Maybe("gsettings http"))>>)

LinuxRoutes == Records("routes", Quick, <<Must("/proc/net/route")>>)
LinuxArp    == Records("arp_neighbors", Quick, <<Must("/proc/net/arp")>>)

\* The cron entries are numbered through all files; of the four directories,
\* two: they are visited in the order of a map's iteration.
LinuxScheduledTasks ==
    Shuffled(Records("scheduled_tasks", Full,
        <<Numbered(Maybe("/etc/crontab"), "cron:crontab"),
          Numbered(Maybe("/etc/cron.d"), "cron:cron.d"),
          Numbered(Maybe("/etc/cron.daily"), "cron:cron.daily"),
          Numbered(Maybe("/etc/cron.weekly"), "cron:cron.weekly"),
          Maybe("systemctl list-timers")>>), {3, 4})

\* Without a readable configuration, at least whether there is an sshd.
LinuxRemoteAccess ==
    OneRecord("remote_access", Quick,
              <<[Fields(Maybe("sshd_config")) EXCEPT !.rows = "end", !.empty = "end"],
                Fields(Maybe("sshd"))>>)

\* A user may be a member by both files, under one key.
LinuxPrivilegedMembers ==
    Records("privileged_members", Quick,
            <<Keyed(Maybe("/etc/group"), "member"), Keyed(Maybe("/etc/passwd"), "member")>>)

LinuxPasswordPolicy == OneRecord("password_policy", Quick, <<Fields(Maybe("/etc/login.defs"))>>)

LinuxUpdateHealth ==
    OneRecord("update_health", Quick,
              <<Fields(Maybe("package logs")), Fields(Maybe("20auto-upgrades")),
                Fields(Maybe("reboot-required"))>>)

LinuxReliability == OneRecord("reliability", Full, <<Fields(Maybe("last"))>>)

\* The interpreters, the browsers, and dotnet.
LinuxRuntimes ==
    Records("runtimes", Quick, <<Maybe("python3"), Maybe("firefox"), Maybe("dotnet")>>)

-----------------------------------------------------------------------------
LinuxBase ==
    <<BaseHost, BaseVolumes, BaseNetwork(LinuxEnrich), BaseOS, BaseHardware,
      BaseProcessors, BaseMemory>>

LinuxPlatform ==
    <<LinuxBios, LinuxVirtualization, LinuxSecureBoot, LinuxTPM, LinuxLocalUsers,
      LinuxListeningPorts, LinuxSoftware, LinuxWifi, LinuxProxy, LinuxRoutes, LinuxArp,
      LinuxScheduledTasks, LinuxRemoteAccess, LinuxPrivilegedMembers, LinuxPasswordPolicy,
      LinuxUpdateHealth, LinuxReliability, LinuxRuntimes>>
=============================================================================
