CONSTANTS
  Kymas = {k1, k2}
  Modules = {"A", "B"}
  IPs = {ip1, ip2}
  NoIP = NoIP
  Ports = {443}
  EnablePreInstallCheck = FALSE
  ConcurrentReconciles = TRUE
  MaxEnvChanges = 2

SPECIFICATION Spec
PROPERTY WatcherChangeReachesSKR
