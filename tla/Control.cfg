\* The bounds of the parts are in MCControl.
CONSTANTS
    a1 = a1
    a2 = a2
    k1 = k1
    k2 = k2
    UfwSetup <- MCUfw
    NftSetup <- MCNft
    ConfigSetup <- MCConfig
    ProviderSetup <- MCProviders
    SecretSetup <- MCSecrets
    LifeSetup <- MCLife
    BridgeSetup <- MCBridge
SYMMETRY Sym
SPECIFICATION Spec
INVARIANTS
    TypeOK
    BansHold
    ConfigKept
    AccessJustified
    EngineOrdered
    VerdictsSound
CHECK_DEADLOCK FALSE
