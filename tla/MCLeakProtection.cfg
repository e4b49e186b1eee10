SPECIFICATION Spec
CONSTANTS
    Platforms <- Machines
    Plans <- AllPlans
    Hardened = {"netsh", "nft", "pf"}
    Faulty = {"netsh", "nft", "iptables"}
    MaxCrashes = 2
INVARIANTS ProtectedWhileUp HandedBack
