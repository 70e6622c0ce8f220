SPECIFICATION ConfigSpec
CONSTANT Env <- Envs
CHECK_DEADLOCK FALSE
INVARIANTS
    AuthnConfigSafe
    CorsConfigSafe
