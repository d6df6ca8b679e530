-------------------------- MODULE WindowsCollectors --------------------------
(* The collectors of Windows (internal/collect/windows.go, windows_wmi.go,  *)
(* assess_windows.go).                                                      *)
EXTENDS BaseCollectors

\* The rows of one WMI class, or the error of the query.
Class(name, level, class) == Records(name, level, <<Must(class)>>)

WindowsProcessors    == Class("processors", Quick, "Win32_Processor")
WindowsMemory        == Class("memory_modules", Quick, "Win32_PhysicalMemory")
WindowsGraphics      == Class("graphics", Quick, "Win32_VideoController")
WindowsOSPatches     == Class("os_patches", Quick, "Win32_QuickFixEngineering")
WindowsLocalUsers    == Class("local_users", Quick, "Win32_UserAccount")
WindowsPrinters      == Class("printers", Quick, "Win32_Printer")
WindowsBatteries     == Class("batteries", Quick, "Win32_Battery")
WindowsServices      == Class("services", Full, "Win32_Service")
WindowsDrivers       == Class("drivers", Full, "Win32_PnPSignedDriver")
WindowsPhysicalDisks == Class("physical_disks", Full, "Win32_DiskDrive")
WindowsUSBDevices    == Class("usb_devices", Full, "Win32_PnPEntity")
WindowsStartupItems  == Class("startup_items", Full, "Win32_StartupCommand")
WindowsProcesses     == Class("processes", Full, "Win32_Process")
WindowsRaid          == Class("raid_controllers", Full, "Win32_SCSIController")

-----------------------------------------------------------------------------
(* WMI with more than one source, the registry and PowerShell.              *)

WindowsOS ==
    OneRecord("os", Minimal,
              <<Fields(Must("Win32_OperatingSystem")), Fields(Maybe("CurrentVersion"))>>)

WindowsHardware ==
    OneRecord("hardware", Minimal,
              <<Fields(Must("Win32_ComputerSystem")), Fields(Partly("Win32_BaseBoard"))>>)

WindowsVirtualization ==
    OneRecord("virtualization", Minimal, <<Fields(Must("Win32_ComputerSystem"))>>)

\* No such key: the state is unknown.
WindowsSecureBoot ==
    OneRecord("secureboot", Minimal, <<IfThere(Fields(Must("SecureBoot State")))>>)

\* The key must open; its values need not be there.
WindowsUAC ==
    OneRecord("uac", Minimal, <<Fields(Must("Policies System")), Fields(Maybe("EnableLUA"))>>)

\* Two of three profiles: a profile that is not there is left out, anything
\* else is an error, and the other profiles are still read.  A profile that
\* opens and has unreadable values is a record and an error.
WindowsFirewall ==
    Records("firewall_profiles", Minimal,
            <<Scanned(IfThere(Noted("DomainProfile"))), Scanned(IfThere(Noted("PublicProfile")))>>)

WindowsBios ==
    OneRecord("bios", Quick, <<Fields(Noted("Win32_BIOS")), Fields(Noted("Win32_SystemEnclosure"))>>)

WindowsTPM == OneRecord("tpm", Quick, <<Fields(Must("Win32_Tpm"))>>)

WindowsLoggedOnUsers ==
    Records("logged_on_users", Quick, <<Must("Win32_ComputerSystem"), Maybe("quser")>>)

\* A server has no SecurityCenter2 (invalid namespace): Defender's status then
\* makes a record of its own.  What was found stays if the status fails.
WindowsAntivirus ==
    Records("antivirus", Quick,
            <<IfThere(Must("AntiVirusProduct")), Either(NotEmpty(Partly("Get-MpComputerStatus")))>>)

WindowsListeningPorts == Records("listening_ports", Full, <<Must("netstat")>>)

\* The monitors' own data; without rows, or on any failure, the class's.
WindowsMonitors ==
    Records("monitors", Full, <<Enough(Maybe("WmiMonitorID")), Must("Win32_DesktopMonitor")>>)

WindowsAppx    == Records("appx_packages", Full, <<Must("Get-AppxPackage")>>)
WindowsThreats == Records("antivirus_threats", Quick, <<Must("Get-MpThreatDetection")>>)

\* Without the encryption namespace, the volumes alone.
WindowsVolumes ==
    Records("volumes", Minimal,
            <<Must("Win32_LogicalDisk"), Fields(IfThere(Noted("Win32_EncryptableVolume")))>>)

-----------------------------------------------------------------------------
(* Assessment.                                                              *)

\* Each query is made twice.  Without adapters the configurations are not
\* joined.
WindowsEnrich ==
    <<Fields([OrSoFar("Win32_NetworkAdapter") EXCEPT !.empty = "end"]),
      Fields(Maybe("Win32_NetworkAdapterConfiguration"))>>

WindowsNetworkProfiles == Records("network_profiles", Quick, <<Maybe("NetworkList")>>)
WindowsWifi            == Records("wifi_networks", Quick, <<OrNothing("netsh wlan")>>)

WindowsProxy ==
    OneRecord("proxy_config", Quick,
              <<Fields(Maybe("Internet Settings")), Fields(Maybe("netsh winhttp"))>>)

\* "Mirror the PowerShell collector: a failed helper yields no records rather
\* than an entity error."
WindowsRoutes            == Records("routes", Quick, <<OrNothing("route print")>>)
WindowsArp               == Records("arp_neighbors", Quick, <<OrNothing("arp")>>)
WindowsScheduledTasks    == Records("scheduled_tasks", Full, <<OrNothing("schtasks")>>)
WindowsPrivilegedMembers == Records("privileged_members", Quick, <<OrNothing("net localgroup")>>)
WindowsPasswordPolicy ==
    OneRecord("password_policy", Quick, <<Fields(OrNothing("net accounts"))>>)

WindowsRemoteAccess ==
    OneRecord("remote_access", Quick,
              <<Fields(Maybe("Terminal Server")), Fields(Maybe("NetbiosOptions")),
                Fields(Maybe("WinRM"))>>)

WindowsUpdateHealth ==
    OneRecord("update_health", Quick,
              <<Fields(Maybe("WindowsUpdate")), Fields(Maybe("RebootPending"))>>)

WindowsReliability == OneRecord("reliability", Full, <<Fields(Must("Get-WinEvent"))>>)

\* "Fail loud": a store that denies access is not an empty one.
WindowsMachineCerts == Records("machine_certs", Full, <<Must("Cert:")>>)

WindowsUSBHistory == Records("usb_history", Full, <<Maybe("USBSTOR")>>)

WindowsRuntimes ==
    Records("runtimes", Quick,
            <<Maybe("PowerShellEngine"), Maybe("dotnet"), Maybe("Update Clients")>>)

WindowsRecovery ==
    OneRecord("recovery", Quick, <<Fields(Must("Win32_DiskPartition")), Fields(Maybe("reagentc"))>>)

\* A hive that cannot be read is left out.
WindowsSoftware ==
    Records("software", Quick, <<Maybe("HKLM"), Maybe("HKLM WOW6432Node"), Maybe("HKCU")>>)

-----------------------------------------------------------------------------
WindowsBase == <<BaseHost, BaseNetwork(WindowsEnrich)>>

WindowsPlatform ==
    <<WindowsSoftware, WindowsOS, WindowsHardware, WindowsVirtualization, WindowsSecureBoot,
      WindowsUAC, WindowsFirewall, WindowsProcessors, WindowsMemory, WindowsGraphics,
      WindowsBios, WindowsTPM, WindowsOSPatches, WindowsLocalUsers, WindowsLoggedOnUsers,
      WindowsPrinters, WindowsBatteries, WindowsAntivirus, WindowsServices, WindowsDrivers,
      WindowsPhysicalDisks, WindowsListeningPorts, WindowsUSBDevices, WindowsStartupItems,
      WindowsMonitors, WindowsAppx, WindowsThreats, WindowsProcesses, WindowsRaid,
      WindowsVolumes, WindowsNetworkProfiles, WindowsWifi, WindowsProxy, WindowsRoutes,
      WindowsArp, WindowsScheduledTasks, WindowsRemoteAccess, WindowsPrivilegedMembers,
      WindowsPasswordPolicy, WindowsUpdateHealth, WindowsReliability, WindowsMachineCerts,
      WindowsUSBHistory, WindowsRuntimes, WindowsRecovery>>
=============================================================================
