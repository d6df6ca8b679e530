---------------------------- MODULE BaseCollectors ----------------------------
(* The collectors of every system (internal/collect/base.go), over gopsutil. *)
EXTENDS Collectors

BaseHost == OneRecord("host", Minimal, <<>>)

BaseOS == OneRecord("os", Minimal, <<Fields(Must("host.Info"))>>)

\* Summaries: what cannot be read is left out.
BaseHardware ==
    OneRecord("hardware", Minimal, <<Fields(Maybe("mem.VirtualMemory")), Fields(Maybe("cpu.Info"))>>)

BaseProcessors == Records("processors", Quick, <<Must("cpu.Info")>>)

BaseMemory == OneRecord("memory_modules", Quick, <<Fields(Must("mem.VirtualMemory"))>>)

BaseVolumes ==
    Records("volumes", Minimal, <<Must("disk.Partitions"), Fields(Maybe("disk.Usage"))>>)

\* The interfaces, with what the platform's enrichNetworkInterfaces reads.
BaseNetwork(enrich) ==
    Records("network_interfaces", Minimal, <<Must("net.Interfaces")>> \o enrich)
=============================================================================
